---------------------------- MODULE Spec2Model ----------------------------
(***************************************************************************)
(* Model of the pinecone-memory plugin: the recall hook, the capture hook  *)
(* (heuristic and LLM paths), llmReconcileMemories, applyMemoryDecisions   *)
(* and the PineconeMemoryDB wrapper they call.                             *)
(*                                                                         *)
(* Texts are sequences of tokens.  A token is a word (letters and digits,  *)
(* possibly followed by sentence punctuation), a list marker, a newline or *)
(* one of the two memory-block tags; the string the code sees is the       *)
(* tokens joined by single spaces.  Scores and thresholds are hundredths.  *)
(***************************************************************************)
EXTENDS Integers, Sequences, FiniteSets, TLC

(***************************************************************************)
(* Bounds of the model.                                                    *)
(***************************************************************************)
MaxMsgs == 2

MaxHits == 2

MaxDecisions == 2

\* Calls made on one PineconeMemoryDB instance that may overlap.
MaxCallers == 2

\* Longest text, in tokens, handed to a helper that takes one text.
MaxTextLen == 4

\* Longest text, in tokens, handed to a helper that takes two texts.
MaxPairLen == 3

(***************************************************************************)
(* Program constants.                                                      *)
(***************************************************************************)
MIN_CAPTURE_LENGTH == 20

MAX_CAPTURE_LENGTH == 2000

deduplicationThreshold == 95

similarityThreshold == 30

updateThreshold == 72

deleteThreshold == 45

summaryTopK == 3

topK == 5

minFactLength == 15

maxFactLength == 280

minPromptLength == 5

(***************************************************************************)
(* The vocabulary: for every token its length in characters and the word   *)
(* left when it is lower-cased and its punctuation is removed.             *)
(***************************************************************************)
NL == "\n"

OpenTag == "<relevant-memories>"

CloseTag == "</relevant-memories>"

\* A plain lower-case word of n characters.
Plain(w, n) == w :> <<n, <<<<w, n>>>>>>

\* token :> <<length, the alphanumeric runs of the lower-cased token with their lengths>>
WordInfo ==
    ("I" :> <<1, <<<<"i", 1>>>>>>) @@ Plain("always", 6) @@ Plain("prefer", 6) @@
    Plain("using", 5) @@ ("TypeScript" :> <<10, <<<<"typescript", 10>>>>>>) @@
    Plain("for", 3) @@ Plain("new", 3) @@ Plain("projects", 8) @@
    Plain("dislike", 7) @@ Plain("like", 4) @@ Plain("dark", 4) @@
    Plain("mode", 4) @@ ("mode." :> <<5, <<<<"mode", 4>>>>>>) @@ Plain("now", 3) @@
    Plain("in", 2) @@ Plain("my", 2) @@ Plain("editor", 6) @@
    Plain("decided", 7) @@ Plain("to", 2) @@ Plain("go", 2) @@ Plain("with", 4) @@
    ("Redis" :> <<5, <<<<"redis", 5>>>>>>) @@ Plain("caching", 7) @@
    Plain("hi", 2) @@ Plain("old", 3) @@ Plain("stuff", 5) @@
    ("-" :> <<1, <<>>>>) @@ ("-dark" :> <<5, <<<<"dark", 4>>>>>>) @@ ("1." :> <<2, <<<<"1", 1>>>>>>) @@ (NL :> <<1, <<>>>>) @@
    (OpenTag :> <<19, <<<<"relevant", 8>>, <<"memories", 8>>>>>>) @@
    (CloseTag :> <<20, <<<<"relevant", 8>>, <<"memories", 8>>>>>>)

WLen(w) == WordInfo[w][1]

\* The words of a token, as a set of <<word, length>> pairs.
Runs(w) == {WordInfo[w][2][k] : k \in DOMAIN WordInfo[w][2]}

\* The words of a text: what \b(word)\b can match, case-insensitively.
Words(t) == {r[1] : r \in UNION {Runs(t[i]) : i \in DOMAIN t}}

\* Tokens that end with one of . ! ?
EndsSentence(w) == w \in {"mode.", "1."}

\* Tokens made only of characters of the class [-*0-9.)].
IsMarker(w) == w \in {"-", "1."}

\* The single word of a token ("" for a token that holds no word).
BareOf(w) == IF Len(WordInfo[w][2]) = 1 THEN WordInfo[w][2][1][1] ELSE ""

RECURSIVE SumLen(_)
SumLen(t) == IF t = <<>> THEN 0 ELSE WLen(Head(t)) + SumLen(Tail(t))

\* text.length of the tokens joined by single spaces.
TextLen(t) == IF t = <<>> THEN 0 ELSE SumLen(t) + Len(t) - 1

\* /\b(w1|w2|...)\b/i.test(text): some word of the text is one of ws.
HasWord(t, ws) == Words(t) \cap ws # {}

\* /\bw1 w2\b/i.test(text) for a two-word phrase.
HasPhrase2(t, a, b) ==
    \E i \in DOMAIN t : i + 1 \in DOMAIN t /\ BareOf(t[i]) = a /\ BareOf(t[i + 1]) = b

HasPhrase3(t, a, b, c) ==
    \E i \in DOMAIN t : /\ i + 2 \in DOMAIN t
                        /\ BareOf(t[i]) = a /\ BareOf(t[i + 1]) = b /\ BareOf(t[i + 2]) = c

PreferenceWords ==
    {"prefer", "always", "never", "like", "dislike", "hate", "love", "want", "avoid"}

ProjectWords == {"project", "repo", "codebase", "stack", "architecture"}

\* /\b(use|using|switch to|migrate|adopt)\b.*\b(for|instead|over)\b/i
UseForPattern(t) ==
    \E i \in DOMAIN t : \E j \in DOMAIN t :
        /\ BareOf(t[j]) \in {"for", "instead", "over"}
        /\ \/ BareOf(t[i]) \in {"use", "using", "migrate", "adopt"} /\ i < j
           \/ /\ BareOf(t[i]) = "switch" /\ i + 1 \in DOMAIN t
              /\ BareOf(t[i + 1]) = "to" /\ i + 1 < j

CAPTURE_PATTERNS(t) ==
    \/ HasWord(t, PreferenceWords)
    \/ HasWord(t, {"decided", "decision", "chose", "chosen", "pick", "selected"})
    \/ HasPhrase2(t, "go", "with")
    \/ HasWord(t, ProjectWords)
    \/ UseForPattern(t)
    \/ HasWord(t, {"remember", "note", "important", "fyi"})
    \/ HasPhrase3(t, "keep", "in", "mind")
    \/ HasWord(t, {"convention", "pattern", "style", "standard", "rule"})
    \/ HasWord(t, {"workflow", "process", "routine", "habit"})

\* shouldCapture without the test of the text's length.
shouldCaptureAnyLength(t) == IF t = <<>> THEN FALSE ELSE CAPTURE_PATTERNS(t)

shouldCapture(t) ==
    IF t = <<>> \/ TextLen(t) < MIN_CAPTURE_LENGTH \/ TextLen(t) > MAX_CAPTURE_LENGTH
    THEN FALSE
    ELSE CAPTURE_PATTERNS(t)

detectCategory(t) ==
    IF HasWord(t, PreferenceWords) THEN "preference"
    ELSE IF \/ HasWord(t, {"decided", "decision", "chose", "chosen", "selected"})
            \/ HasPhrase2(t, "go", "with") THEN "decision"
    ELSE IF HasWord(t, ProjectWords) THEN "project"
    ELSE IF \/ HasWord(t, {"bug", "error", "fix", "debug", "issue", "crash", "exception"})
            \/ HasPhrase2(t, "stack", "trace") THEN "technical"
    ELSE IF \/ HasWord(t, {"is", "are", "was", "were", "has", "have"}) THEN "fact"
    ELSE "general"

\* lower-case, non-alphanumerics to spaces, split, keep the tokens longer than 2.
tokenSet(t) == {r[1] : r \in {q \in UNION {Runs(t[i]) : i \in DOMAIN t} : q[2] > 2}}

\* The shared tokens as a fraction of the first text's tokens.
similarityOverFirst(a, b) ==
    LET aSet == tokenSet(a)
        bSet == tokenSet(b)
    IN  IF aSet = {} \/ bSet = {} THEN <<0, 1>>
        ELSE <<Cardinality(aSet \cap bSet), Cardinality(aSet)>>

\* Jaccard index as a fraction <<numerator, denominator>>.
similarity(a, b) ==
    LET aSet == tokenSet(a)
        bSet == tokenSet(b)
    IN  IF aSet = {} \/ bSet = {} THEN <<0, 1>>
        ELSE <<Cardinality(aSet \cap bSet), Cardinality(aSet \cup bSet)>>

\* fraction >= pct / 100
AtLeast(r, pct) == r[1] * 100 >= pct * r[2]

\* fraction > pct / 100
MoreThan(r, pct) == r[1] * 100 > pct * r[2]

NegCue(t) ==
    \/ HasWord(t, {"not", "never", "dislike", "hate", "avoid", "don't", "doesn't"})
    \/ HasPhrase2(t, "no", "longer")

PosCue(t) == HasWord(t, {"like", "love", "prefer", "always", "want", "use", "using"})

\* isContradiction without the overlap floor.
isContradictionAtAnyOverlap(newFact, oldFact) ==
    (NegCue(newFact) /\ PosCue(oldFact)) \/ (PosCue(newFact) /\ NegCue(oldFact))

\* overlap < 0.35 is no contradiction; at or above it, opposite cues are one.
isContradiction(newFact, oldFact) ==
    IF ~AtLeast(similarity(newFact, oldFact), 35) THEN FALSE
    ELSE (NegCue(newFact) /\ PosCue(oldFact)) \/ (PosCue(newFact) /\ NegCue(oldFact))

(***************************************************************************)
(* Text clean-up and heuristic fact extraction.                            *)
(***************************************************************************)
\* String.prototype.trim: newline tokens at both ends are whitespace.
RECURSIVE trimLeft(_)
trimLeft(t) == IF t # <<>> /\ Head(t) = NL THEN trimLeft(Tail(t)) ELSE t

RECURSIVE trimRight(_)
trimRight(t) ==
    IF t # <<>> /\ t[Len(t)] = NL THEN trimRight(SubSeq(t, 1, Len(t) - 1)) ELSE t

trim(t) == trimRight(trimLeft(t))

\* Positions of an open tag that some close tag follows.
OpenPositions(t) ==
    {i \in DOMAIN t : t[i] = OpenTag /\ \E j \in DOMAIN t : j > i /\ t[j] = CloseTag}

Least(S) == CHOOSE x \in S : \A y \in S : x <= y

\* replace(/<relevant-memories>[\s\S]*?<\/relevant-memories>/g, ""): leftmost
\* open tag, shortest span, then on with the rest.
RECURSIVE removeBlocks(_)
removeBlocks(t) ==
    IF OpenPositions(t) = {} THEN t
    ELSE LET i == Least(OpenPositions(t))
             j == Least({k \in DOMAIN t : k > i /\ t[k] = CloseTag})
         IN  SubSeq(t, 1, i - 1) \o removeBlocks(SubSeq(t, j + 1, Len(t)))

stripMemoryTags(t) == trim(removeBlocks(t))

\* A replace that takes one leading marker or whitespace only.
dropLeadingOnce(t) ==
    IF t # <<>> /\ (IsMarker(Head(t)) \/ Head(t) = NL) THEN Tail(t)
    ELSE IF t # <<>> /\ Head(t) = "-dark" THEN <<"dark">> \o Tail(t)
    ELSE t

\* replace(/^[\-•\*\d\.\)\s]+/, ""): leading markers and whitespace.
RECURSIVE dropLeading(_)
dropLeading(t) ==
    IF t # <<>> /\ (IsMarker(Head(t)) \/ Head(t) = NL) THEN dropLeading(Tail(t))
    ELSE IF t # <<>> /\ Head(t) = "-dark" THEN <<"dark">> \o Tail(t)
    ELSE t

\* replace(/\s+/g, " "): a newline inside the text becomes the single space
\* that already separates two tokens.
RECURSIVE collapse(_)
collapse(t) ==
    IF t = <<>> THEN <<>>
    ELSE IF Head(t) = NL THEN collapse(Tail(t))
    ELSE <<Head(t)>> \o collapse(Tail(t))

normalizeFact(t) == trim(collapse(dropLeading(t)))

\* split(/(?<=[.!?])\s+|\n+/): the pieces between the cuts, a cut being a
\* newline or the space after a token that ends a sentence.
RECURSIVE splitRaw(_, _)
splitRaw(t, cur) ==
    IF t = <<>> THEN <<cur>>
    ELSE IF Head(t) = NL THEN <<cur>> \o splitRaw(trimLeft(Tail(t)), <<>>)
    ELSE IF EndsSentence(Head(t)) /\ Tail(t) # <<>>
         THEN <<cur \o <<Head(t)>>>> \o splitRaw(trimLeft(Tail(t)), <<>>)
    ELSE splitRaw(Tail(t), cur \o <<Head(t)>>)

RECURSIVE mapNormalizeNonEmpty(_)
mapNormalizeNonEmpty(ps) ==
    IF ps = <<>> THEN <<>>
    ELSE LET n == normalizeFact(Head(ps))
         IN  (IF n = <<>> THEN <<>> ELSE <<n>>) \o mapNormalizeNonEmpty(Tail(ps))

splitSentences(t) == mapNormalizeNonEmpty(splitRaw(t, <<>>))

\* blocks.filter(b => b.type === "text").map(b => b.text).join("\n")
RECURSIVE joinTextBlocks(_)
joinTextBlocks(bs) ==
    IF bs = <<>> THEN <<>>
    ELSE LET rest == joinTextBlocks(Tail(bs))
             more == \E k \in DOMAIN Tail(bs) : Tail(bs)[k].type = "text"
         IN  IF Head(bs).type # "text" THEN rest
             ELSE IF more THEN Head(bs).text \o <<NL>> \o rest
             ELSE Head(bs).text

\* The text of a message: a string, an array of content blocks, or neither.
contentText(m) ==
    IF m.content.kind = "string" THEN m.content.text
    ELSE IF m.content.kind = "blocks" THEN joinTextBlocks(m.content.blocks)
    ELSE <<>>

\* The loop over the sentences without the test against the accepted facts.
RECURSIVE addSentencesNoDedup(_, _)
addSentencesNoDedup(acc, sentences) ==
    IF sentences = <<>> THEN acc
    ELSE LET sentence == Head(sentences)
             skip == \/ TextLen(sentence) < minFactLength
                     \/ TextLen(sentence) > maxFactLength
                     \/ ~shouldCapture(sentence)
         IN  addSentencesNoDedup(IF skip THEN acc ELSE Append(acc, sentence),
                                 Tail(sentences))

\* The inner loop of extractConciseFacts: a sentence within the bounds that
\* passes shouldCapture is pushed unless an accepted fact is that similar.
RECURSIVE addSentences(_, _)
addSentences(facts, sentences) ==
    IF sentences = <<>> THEN facts
    ELSE LET sentence == Head(sentences)
             skip == \/ TextLen(sentence) < minFactLength
                     \/ TextLen(sentence) > maxFactLength
                     \/ ~shouldCapture(sentence)
                     \/ \E k \in DOMAIN facts :
                            MoreThan(similarity(facts[k], sentence), 90)
         IN  addSentences(IF skip THEN facts ELSE Append(facts, sentence),
                          Tail(sentences))

RECURSIVE extractFrom(_, _)
extractFrom(messages, facts) ==
    IF messages = <<>> THEN facts
    ELSE LET msg == Head(messages)
             text == stripMemoryTags(contentText(msg))
         IN  IF msg.role # "user" /\ msg.role # "assistant"
             THEN extractFrom(Tail(messages), facts)
             ELSE IF text = <<>> THEN extractFrom(Tail(messages), facts)
             ELSE extractFrom(Tail(messages), addSentences(facts, splitSentences(text)))

extractConciseFacts(messages) == extractFrom(messages, <<>>)

(***************************************************************************)
(* State.                                                                  *)
(***************************************************************************)
VARIABLES
    entry,            \* the function the host (or a test) called
    variant,          \* which llmExtractFacts/llmReconcileMemories is loaded
    captureMode,      \* config.captureMode
    openaiApiKey,     \* config.openaiApiKey
    openaiClient,     \* TRUE when register() could build the OpenAI client
    event,            \* the hook's argument: [prompt, messages]
    records,          \* the records of the Pinecone namespace
    ready,            \* db._ready: "null", "pending", or how the one-time setup ended
    listCalls,        \* number of client.listIndexes() calls
    requests,         \* the upsert/search/delete requests sent to the index
    uuids,            \* number of randomUUID() calls
    pc,               \* where the running hook stands
    facts,            \* the facts of the capture batch
    fi,               \* index of the fact (or decision) being processed
    nearby,           \* result of the last db.search
    counts,           \* heuristicCapture: added/updated/deleted/none; stats of apply
    factsWithContext, \* llmReconcileMemories: per fact, the memories shown
    idMapping,        \* llmReconcileMemories: the entries placeholder -> real id
    nextId,           \* llmReconcileMemories: the next placeholder number
    decisions,        \* the decisions being applied
    llmCalls,         \* the user messages sent to chat.completions.create
    warnings,         \* logger.warn calls, by kind
    handled,          \* heuristicCapture: per fact done, what was seen and issued
    applied,          \* applyMemoryDecisions: per decision done, what was issued
    result,           \* what the hook did: pending, returned (with what) or raised
    params,           \* a tool's arguments: [text, category, memoryId, query]
    args,             \* the texts handed to a helper called directly: [a, b]
    calls             \* the calls made on the PineconeMemoryDB instance directly

vars == <<entry, variant, captureMode, openaiApiKey, openaiClient, event, records, ready, listCalls,
          requests, uuids, pc, facts, fi, nearby, counts, factsWithContext,
          idMapping, nextId, decisions, llmCalls, warnings, handled, applied, result,
          params, args, calls>>

\* What no hook, tool or call changes.
settings == <<entry, variant, captureMode, openaiApiKey, event, params, args>>

config == <<settings, openaiClient>>

llmLocals == <<factsWithContext, idMapping, nextId, decisions, llmCalls, applied>>

(***************************************************************************)
(* Inputs.                                                                 *)
(***************************************************************************)
Str(t) == [kind |-> "string", text |-> t]

TS == <<"I", "always", "prefer", "using", "TypeScript", "for", "new", "projects">>

DislikeDark == <<"I", "dislike", "dark", "mode", "now">>

LikeDark == <<"I", "like", "dark", "mode">>

PreferEditor == <<"I", "always", "prefer", "dark", "mode", "in", "my", "editor">>

AlwaysDark == <<"I", "always", "prefer", "dark", "mode">>

Redis == <<"I", "decided", "to", "go", "with", "Redis", "for", "caching">>

\* The conversation the host may hand over; a hook call gets a window of it.
Conversation ==
    << [role |-> "user", content |-> Str(TS)],
       [role |-> "system", content |-> Str(PreferEditor)],
       [role |-> "assistant",
        content |-> [kind |-> "blocks",
                     blocks |-> <<[type |-> "text", text |-> <<"hi">>],
                                  [type |-> "image", text |-> <<>>],
                                  [type |-> "text", text |-> Redis]>>]],
       [role |-> "user", content |-> Str(<<"hi">>)],
       [role |-> "user",
        content |-> Str(<<OpenTag, "old", "stuff", CloseTag, "-">> \o PreferEditor)],
       [role |-> "user",
        content |-> Str(<<"I", "like", "dark", "mode.">> \o DislikeDark)],
       [role |-> "user", content |-> Str(Tail(DislikeDark))] >>

\* event.messages: nothing, or up to MaxMsgs consecutive messages.
MessageLists ==
    {SubSeq(Conversation, a, b) :
        a \in 1..Len(Conversation),
        b \in 0..Len(Conversation)} \cap
    UNION {[1..n -> {Conversation[k] : k \in DOMAIN Conversation}] : n \in 0..MaxMsgs}

Prompts == {<<>>, <<"hi">>, <<"dark", "mode">>, <<NL, "hi", NL>>}

Mem1 == [id |-> "mem-1", content |-> LikeDark, category |-> "preference",
         role |-> "tool"]

Mem2 == [id |-> "mem-2", content |-> AlwaysDark, category |-> "preference",
         role |-> "summary"]

Mem4 == [id |-> "mem-4", content |-> TS, category |-> "preference",
         role |-> "llm-extract"]

\* A second record that a dislike of dark mode contradicts.
Mem6 == [id |-> "mem-6", content |-> <<"I", "like", "dark", "mode", "now">>,
         category |-> "preference", role |-> "summary"]

\* A record written by another client, without a content field.
Mem3 == [id |-> "mem-3", content |-> <<>>, category |-> "", role |-> ""]

\* What the namespace may hold when the hook starts.
InitialStores == {{}, {Mem1}, {Mem2}, {Mem4}, {Mem1, Mem3}, {Mem1, Mem2}, {Mem1, Mem6}}

\* Relevance scores the backend may report, in hundredths: one below every
\* threshold, one between the delete and the update threshold, one between
\* the update and the deduplication threshold, one above all.  The runs that
\* involve the LLM backend draw from two of them.
Scores == IF openaiClient THEN {20, 88} ELSE {20, 60, 88, 97}

\* randomUUID(): the n-th identifier drawn.
UuidNames == <<"uuid-1", "uuid-2", "uuid-3", "uuid-4", "uuid-5", "uuid-6",
               "uuid-7", "uuid-8", "uuid-9", "uuid-10", "uuid-11", "uuid-12">>

\* A generator that returns the same identifier every time.
randomUUIDRepeats(n) == UuidNames[1]

randomUUID(n) == UuidNames[n + 1]

(***************************************************************************)
(* PineconeMemoryDB.                                                       *)
(***************************************************************************)
\* How `await this.ensureIndex()` can end: the memoized outcome, or, on the
\* first call, the outcome of listing the indexes.
ensureIndex == IF ready = "null" THEN {"ok", "missing", "rejected"} ELSE {ready}

\* One db operation that sends `req` when set-up succeeded; e is the outcome
\* of ensureIndex, ok tells whether the index then resolved the request.
DbRequest(e, req, ok) ==
    /\ ready' = e
    /\ listCalls' = IF ready = "null" THEN listCalls + 1 ELSE listCalls
    /\ requests' = IF e = "ok"
                   THEN Append(requests, [op |-> req.op, id |-> req.id,
                                          text |-> req.text, ok |-> ok])
                   ELSE requests

\* upsertRecords({records: [{_id: id, content: text, ...metadata}]})
store(id, text, category, role) ==
    {r \in records : r.id # id} \cup
    {[id |-> id, content |-> text, category |-> category, role |-> role]}

\* update is store under the same id.
update(id, text, category, role) == store(id, text, category, role)

\* deleteOne(id)
delete(id) == {r \in records : r.id # id}

Min(a, b) == IF a < b THEN a ELSE b

\* What searchRecords can answer with topK = k: at most k distinct records,
\* each with a score, best first.
BackendHits(k) ==
    LET n == Min(Min(k, MaxHits), Cardinality(records))
    IN  {h \in UNION {[1..m -> records \X Scores] : m \in 0..n} :
            /\ \A a, b \in DOMAIN h : a # b => h[a][1].id # h[b][1].id
            /\ \A a, b \in DOMAIN h : a < b => h[a][2] >= h[b][2]}

Hit(p) == [_id |-> p[1].id, _score |-> p[2], content |-> p[1].content,
           category |-> p[1].category]

\* hits.filter((hit) => hit._score > threshold)
searchAbove(h, threshold) ==
    SelectSeq([k \in DOMAIN h |-> Hit(h[k])], LAMBDA hit : hit._score > threshold)

\* hits.filter((hit) => hit._score >= threshold)
search(h, threshold) ==
    SelectSeq([k \in DOMAIN h |-> Hit(h[k])], LAMBDA hit : hit._score >= threshold)

\* The backend's answer as hit objects, unfiltered.
Answer(h) == [k \in DOMAIN h |-> Hit(h[k])]

\* isDuplicate with the recall threshold in place of the deduplication one.
isDuplicateAtSimilarity(h) == search(h, similarityThreshold)

\* db.isDuplicate(text): the hits of search(text, 1, deduplicationThreshold);
\* the first of them, if any, is the duplicate.
isDuplicate(h) == search(h, deduplicationThreshold)

extractHitContent(hit) == trim(hit.content)

(***************************************************************************)
(* Hook: before_agent_start.                                               *)
(***************************************************************************)
\* The lines of the block with a line for every hit, text or no text.
recallLinesForAllHits(hits) ==
    [k \in DOMAIN hits |-> [score |-> hits[k]._score, category |-> hits[k].category,
                            content |-> extractHitContent(hits[k])]]

\* hits.map(...).filter(Boolean): a line per hit that has a text.
RECURSIVE recallLines(_)
recallLines(hits) ==
    IF hits = <<>> THEN <<>>
    ELSE LET hit == Head(hits)
             content == extractHitContent(hit)
         IN  (IF content = <<>> THEN <<>>
              ELSE <<[score |-> hit._score, category |-> hit.category,
                      content |-> content]>>) \o recallLines(Tail(hits))

Returned(ctx) == [status |-> "returned", prependContext |-> ctx]

NoContext == [open |-> "", lines |-> <<>>, close |-> ""]

\* The recall hook without its catch: the error reaches the host.
RecallCatchMissing ==
    /\ warnings' = warnings
    /\ result' = [status |-> "raised", prependContext |-> NoContext]

\* catch (err) { logger.warn("recall failed") } of the recall hook.
RecallCatch ==
    /\ warnings' = warnings \cup {"recall failed"}
    /\ result' = Returned(NoContext)

BeforeAgentStart ==
    /\ pc = "idle"
    /\ entry = "before_agent_start"
    /\ pc' = "done"
    /\ LET prompt == trim(event.prompt)
       IN  IF prompt = <<>> \/ TextLen(prompt) < minPromptLength
           THEN /\ result' = Returned(NoContext)
                /\ UNCHANGED <<ready, listCalls, requests, nearby, warnings>>
           ELSE \E e \in ensureIndex :
                LET req == [op |-> "search", id |-> "", text |-> prompt]
                IN \/ /\ DbRequest(e, req, FALSE)
                      /\ RecallCatch
                      /\ UNCHANGED nearby
                   \/ /\ e = "ok"
                      /\ DbRequest(e, req, TRUE)
                      /\ \E h \in BackendHits(topK) :
                            LET hits == search(h, similarityThreshold)
                                lines == recallLines(hits)
                            IN  /\ nearby' = hits
                                /\ result' =
                                     IF hits = <<>> \/ lines = <<>>
                                     THEN Returned(NoContext)
                                     ELSE Returned([open |-> OpenTag, lines |-> lines,
                                                    close |-> CloseTag])
                                /\ UNCHANGED warnings
    /\ UNCHANGED <<config, calls, records, uuids, facts, fi, counts, llmLocals, handled>>

(***************************************************************************)
(* Hook: agent_end, heuristic path.                                        *)
(***************************************************************************)
ZeroCounts == [added |-> 0, updated |-> 0, deleted |-> 0, none |-> 0]

\* messages.slice(-n)
lastN(messages, n) ==
    IF Len(messages) <= n THEN messages
    ELSE SubSeq(messages, Len(messages) - n + 1, Len(messages))

\* A find that returns the last of the hits at the given positions.
findLast(matching) ==
    IF matching = {} THEN 0 ELSE CHOOSE x \in matching : \A y \in matching : y <= x

\* nearby.find(...): index of the first of the hits at the given positions,
\* 0 when there is none.
find(matching) == IF matching = {} THEN 0 ELSE Least(matching)

\* heuristicDecision with the contradiction check moved before the
\* duplicate check.
heuristicDecisionContradictionFirst(fact, hits) ==
    LET exactDup == find({k \in DOMAIN hits :
                        \/ hits[k]._score >= deduplicationThreshold
                        \/ AtLeast(similarity(fact, extractHitContent(hits[k])), 95)})
        contradiction == find({k \in DOMAIN hits :
                        isContradiction(fact, extractHitContent(hits[k]))})
        updateTarget == find({k \in DOMAIN hits :
                        \/ hits[k]._score >= updateThreshold
                        \/ AtLeast(similarity(fact, extractHitContent(hits[k])),
                                   updateThreshold)})
    IN  IF contradiction # 0 /\ hits[contradiction]._score >= deleteThreshold
        THEN [action |-> "DELETE", id |-> hits[contradiction]._id]
        ELSE IF exactDup # 0 THEN [action |-> "NONE", id |-> ""]
        ELSE IF updateTarget # 0
             THEN [action |-> "UPDATE", id |-> hits[updateTarget]._id]
        ELSE [action |-> "ADD", id |-> "new"]

\* heuristicDecision without the update branch: an update candidate is added
\* as a new record.
heuristicDecisionNoUpdate(fact, hits) ==
    LET exactDup == find({k \in DOMAIN hits :
                        \/ hits[k]._score >= deduplicationThreshold
                        \/ AtLeast(similarity(fact, extractHitContent(hits[k])), 95)})
        contradiction == find({k \in DOMAIN hits :
                        isContradiction(fact, extractHitContent(hits[k]))})
    IN  IF exactDup # 0 THEN [action |-> "NONE", id |-> ""]
        ELSE IF contradiction # 0 /\ hits[contradiction]._score >= deleteThreshold
             THEN [action |-> "DELETE", id |-> hits[contradiction]._id]
        ELSE [action |-> "ADD", id |-> "new"]

\* The body of the for loop of heuristicCapture: what is done for one fact.
heuristicDecision(fact, hits) ==
    LET exactDup == find({k \in DOMAIN hits :
                        \/ hits[k]._score >= deduplicationThreshold
                        \/ AtLeast(similarity(fact, extractHitContent(hits[k])), 95)})
        contradiction == find({k \in DOMAIN hits :
                        isContradiction(fact, extractHitContent(hits[k]))})
        updateTarget == find({k \in DOMAIN hits :
                        \/ hits[k]._score >= updateThreshold
                        \/ AtLeast(similarity(fact, extractHitContent(hits[k])),
                                   updateThreshold)})
    IN  IF exactDup # 0 THEN [action |-> "NONE", id |-> ""]
        ELSE IF contradiction # 0 /\ hits[contradiction]._score >= deleteThreshold
             THEN [action |-> "DELETE", id |-> hits[contradiction]._id]
        ELSE IF updateTarget # 0
             THEN [action |-> "UPDATE", id |-> hits[updateTarget]._id]
        ELSE [action |-> "ADD", id |-> "new"]

\* catch (err) { logger.warn("capture failed") } of the capture hook.
CaptureCatch ==
    /\ warnings' = warnings \cup {"capture failed"}
    /\ pc' = "done"
    /\ result' = Returned(NoContext)

\* heuristicCapture(messages) up to its first await.
HeuristicCaptureBegin ==
    LET fs == extractConciseFacts(lastN(event.messages, 10))
    IN  /\ facts' = fs
        /\ fi' = 1
        /\ counts' = ZeroCounts
        /\ IF fs = <<>>
           THEN pc' = "done" /\ result' = Returned(NoContext)
           ELSE pc' = "h_search" /\ result' = result

\* agent_end with captureMode "heuristic", or without an OpenAI client.
AgentEndHeuristic ==
    /\ pc = "idle"
    /\ entry = "agent_end"
    /\ ~(captureMode = "llm" /\ openaiClient)
    /\ HeuristicCaptureBegin
    /\ UNCHANGED <<config, calls, records, ready, listCalls, requests, uuids, nearby,
                   llmLocals, warnings, handled>>

\* const nearby = await db.search(fact, summaryTopK, deleteThreshold)
HeuristicSearch ==
    /\ pc = "h_search"
    /\ \E e \in ensureIndex :
        LET req == [op |-> "search", id |-> "", text |-> facts[fi]]
        IN \/ /\ DbRequest(e, req, FALSE)
              /\ CaptureCatch
              /\ UNCHANGED nearby
           \/ /\ e = "ok"
              /\ DbRequest(e, req, TRUE)
              /\ \E h \in BackendHits(summaryTopK) :
                    nearby' = search(h, deleteThreshold)
              /\ pc' = "h_apply"
              /\ UNCHANGED <<warnings, result>>
    /\ UNCHANGED <<config, calls, records, uuids, facts, fi, counts, llmLocals, handled>>

\* Counting that leaves out the facts found to be duplicates.
BumpExceptNone(c, field) == IF field = "none" THEN c ELSE [c EXCEPT ![field] = @ + 1]

\* added += 1, updated += 1, deleted += 1 or none += 1
Bump(c, field) == [c EXCEPT ![field] = @ + 1]

\* End of one loop iteration: on to the next fact, or log the summary and return.
HeuristicNext ==
    /\ fi' = fi + 1
    /\ IF fi = Len(facts)
       THEN pc' = "done" /\ result' = Returned(NoContext)
       ELSE pc' = "h_search" /\ result' = result

Handled(ops, ok) ==
    Append(handled, [fact |-> facts[fi], nearby |-> nearby, ops |-> ops, ok |-> ok])

\* The rest of the loop body: the duplicate, contradiction and update checks
\* and the awaited delete, update or store.
HeuristicApply ==
    /\ pc = "h_apply"
    /\ LET fact == facts[fi]
           category == detectCategory(fact)
           d == heuristicDecision(fact, nearby)
           id == IF d.action = "ADD" THEN randomUUID(uuids) ELSE d.id
           req == IF d.action = "DELETE"
                  THEN [op |-> "delete", id |-> id, text |-> <<>>]
                  ELSE [op |-> "upsert", id |-> id, text |-> fact]
       IN  IF d.action = "NONE"
           THEN /\ counts' = Bump(counts, "none")
                /\ handled' = Handled(<<>>, TRUE)
                /\ HeuristicNext
                /\ UNCHANGED <<records, ready, listCalls, requests, uuids, warnings>>
           ELSE /\ uuids' = IF d.action = "ADD" THEN uuids + 1 ELSE uuids
                /\ \E e \in ensureIndex :
                       \/ /\ DbRequest(e, req, FALSE)
                          /\ handled' = Handled(<<req>>, FALSE)
                          /\ CaptureCatch
                          /\ UNCHANGED <<records, counts, fi>>
                       \/ /\ e = "ok"
                          /\ DbRequest(e, req, TRUE)
                          /\ handled' = Handled(<<req>>, TRUE)
                          /\ records' =
                               IF d.action = "DELETE" THEN delete(id)
                               ELSE IF d.action = "UPDATE"
                                    THEN update(id, fact, category, "summary")
                               ELSE store(id, fact, category, "summary")
                          /\ counts' = Bump(counts,
                               IF d.action = "DELETE" THEN "deleted"
                               ELSE IF d.action = "UPDATE" THEN "updated"
                               ELSE "added")
                          /\ HeuristicNext
                          /\ UNCHANGED warnings
    /\ UNCHANGED <<config, calls, facts, nearby, llmLocals>>

(***************************************************************************)
(* JSON values of the LLM backend's replies.                               *)
(***************************************************************************)
\* A scalar: its JavaScript type and its value (a string for ids and events,
\* a token sequence for texts).
JStr(v) == [t |-> "string", v |-> v]

JUndef == [t |-> "undefined", v |-> ""]

\* null, as a value returned where an object was possible.
Null == [t |-> "null", v |-> ""]

JNum(v) == [t |-> "number", v |-> v]

JText(v) == [t |-> "string", v |-> v]

JNoText == [t |-> "undefined", v |-> <<>>]

JNumText == [t |-> "number", v |-> <<>>]

Decision(ev, id, text) ==
    [shape |-> "object", event |-> ev, id |-> id, text |-> text, old_memory |-> Null]

\* The same decision with the text of the memory it supersedes.
WithOldMemory(d, old) == [d EXCEPT !.old_memory = JText(old)]

\* A null where a decision object is expected.
NullDecision == [shape |-> "null", event |-> JUndef, id |-> JUndef, text |-> JNoText,
                 old_memory |-> Null]

\* String(n) for the placeholder numbers.
Digits == <<"0", "1", "2", "3", "4", "5", "6", "7", "8", "9">>

String(n) == Digits[n + 1]

\* Property names every object literal inherits from Object.prototype.
ObjectPrototypeKeys ==
    {"constructor", "toString", "valueOf", "hasOwnProperty", "isPrototypeOf",
     "propertyIsEnumerable", "toLocaleString", "__proto__"}

\* s.toUpperCase() for the event names the replies use.
toUpperCase(s) ==
    IF s \in {"add", "Add"} THEN "ADD"
    ELSE IF s \in {"update", "Update"} THEN "UPDATE"
    ELSE IF s \in {"delete", "Delete"} THEN "DELETE"
    ELSE IF s \in {"none", "None"} THEN "NONE"
    ELSE IF s = "merge" THEN "MERGE"
    ELSE s

\* !value for an id.
Falsy(j) ==
    \/ j.t = "undefined"
    \/ j.t = "string" /\ j.v = ""
    \/ j.t = "number" /\ j.v = "0"

(***************************************************************************)
(* llmExtractFacts.                                                        *)
(***************************************************************************)
RoleLen(role) == IF role = "user" THEN 4 ELSE IF role = "assistant" THEN 9 ELSE 6

\* The lines of conversationText.  index.js keeps user and assistant
\* messages as `${role}: ${text}` lines longer than 6 characters; part_000
\* keeps the non-blank texts of the user messages.
RECURSIVE conversationLines(_, _)
conversationLines(v, messages) ==
    IF messages = <<>> THEN <<>>
    ELSE LET m == Head(messages)
             text == stripMemoryTags(contentText(m))
             line == [role |-> IF v = "index.js" THEN m.role ELSE "", text |-> text]
             keep == IF v = "index.js"
                     THEN /\ m.role \in {"user", "assistant"}
                          /\ RoleLen(m.role) + 2 + TextLen(text) > 6
                     ELSE m.role = "user" /\ trim(text) # <<>>
         IN  (IF keep THEN <<line>> ELSE <<>>) \o conversationLines(v, Tail(messages))

\* parsed.facts.filter((f) => typeof f === "string" && f.trim())
RECURSIVE stringFacts(_)
stringFacts(fs) ==
    IF fs = <<>> THEN <<>>
    ELSE (IF Head(fs).t = "string" /\ trim(Head(fs).v) # <<>>
          THEN <<Head(fs).v>> ELSE <<>>) \o stringFacts(Tail(fs))

\* The ways chat.completions.create and the parsing of its answer can end
\* for the extraction call.  `facts` is what parsed.facts holds when it is
\* an array.
ExtractReplies ==
    {[kind |-> k, facts |-> <<>>] : k \in {"reject", "nocontent", "malformed", "notarray"}}
    \cup
    {[kind |-> "json", facts |-> f] :
        f \in {<<>>, <<JText(DislikeDark)>>,
               <<JText(DislikeDark), JNumText, JText(<<NL>>), JText(PreferEditor)>>}}

\* An extraction that throws whenever the answer holds no facts array.
ThrowsWithoutFacts(reply) == reply.kind # "json"

Throws(reply) == reply.kind \in {"reject", "malformed"}

(***************************************************************************)
(* llmReconcileMemories.                                                   *)
(***************************************************************************)
\* Object.entries(idMapping).find(([, v]) => v === realId)?.[0]
placeholderOf(mapping, realId) ==
    LET hit == {k \in DOMAIN mapping : mapping[k][2] = realId}
    IN  IF hit = {} THEN JUndef ELSE JStr(mapping[Least(hit)][1])

\* nearby.map(...) of part_000: the memories with placeholder ids.  Returns
\* <<existingMemories, idMapping, nextId>>.
RECURSIVE mapNearby(_, _, _)
mapNearby(hits, mapping, next) ==
    IF hits = <<>> THEN <<<<>>, mapping, next>>
    ELSE LET hit == Head(hits)
             known == placeholderOf(mapping, hit._id)
             intId == IF known.t = "undefined" THEN String(next) ELSE known.v
             mapping2 == IF known.t = "undefined"
                         THEN Append(mapping, <<intId, hit._id>>) ELSE mapping
             next2 == IF known.t = "undefined" THEN next + 1 ELSE next
             rest == mapNearby(Tail(hits), mapping2, next2)
         IN  <<<<[id |-> intId, text |-> extractHitContent(hit)]>> \o rest[1],
               rest[2], rest[3]>>

\* nearby.map(...) of index.js: the memories with their real ids and scores.
existingMemoriesReal(hits) ==
    [k \in DOMAIN hits |->
        [id |-> hits[k]._id, text |-> extractHitContent(hits[k]),
         score |-> hits[k]._score]]

\* idMapping[key]: an own entry, else what the prototype chain holds.
lookup(mapping, key) ==
    IF \E k \in DOMAIN mapping : mapping[k][1] = key
    THEN JStr(mapping[Least({k \in DOMAIN mapping : mapping[k][1] = key})][2])
    ELSE IF key \in ObjectPrototypeKeys THEN [t |-> "function", v |-> key]
    ELSE JUndef

\* d.id === "new" ? "new" : (idMapping[String(d.id)] ?? d.id)
mapBack(mapping, id) ==
    IF id.t = "string" /\ id.v = "new" THEN JStr("new")
    ELSE LET key == IF id.t = "undefined" THEN "undefined" ELSE id.v
             found == lookup(mapping, key)
         IN  IF found.t = "undefined" THEN id ELSE found

\* What llmReconcileMemories returns for the parsed decisions: part_000 maps
\* the ids back, index.js returns the array as it is.
returnedDecisions(v, mapping, ds) ==
    IF v = "index.js" THEN ds
    ELSE [k \in DOMAIN ds |-> [ds[k] EXCEPT !.id = mapBack(mapping, ds[k].id)]]

MemoryText == DislikeDark

\* The decision objects the backend may answer with.
DecisionPool ==
    IF entry = "applyMemoryDecisions"
    THEN {Decision(JStr(e), JStr("mem-1"), JText(x)) :
              e \in {"ADD", "UPDATE", "DELETE"}, x \in {MemoryText, <<NL>>, <<>>}}
         \cup {Decision(JStr(e), i, JText(MemoryText)) :
              e \in {"UPDATE", "DELETE"}, i \in {JStr("new"), JStr(""), JUndef}}
         \cup {Decision(JStr("ADD"), JStr("new"), JNoText),
               Decision(JStr("NONE"), JStr("mem-1"), JText(MemoryText)),
               Decision(JStr("update"), JStr("mem-1"), JText(MemoryText)),
               Decision(JStr("merge"), JStr("mem-1"), JText(MemoryText)),
               Decision(JUndef, JStr("mem-1"), JText(MemoryText)),
               Decision(JStr("ADD"), JStr("new"), JNumText),
               NullDecision}
    ELSE IF entry = "llmReconcileMemories"
    THEN {Decision(JStr("UPDATE"), i, JText(MemoryText)) :
              i \in {JStr("new"), JStr("0"), JStr("1"), JStr("7"), JStr("mem-1"),
                     JStr("constructor"), JNum("0"), JUndef}}
         \cup {Decision(JStr("ADD"), JStr("new"), JText(MemoryText)), NullDecision,
               WithOldMemory(Decision(JStr("UPDATE"), JStr("0"), JText(MemoryText)),
                             LikeDark),
               WithOldMemory(Decision(JStr("ADD"), JStr("new"), JText(MemoryText)),
                             LikeDark)}
    ELSE {Decision(JStr("ADD"), JStr("new"), JText(MemoryText)),
          Decision(JStr("UPDATE"), JStr("0"), JText(MemoryText)),
          Decision(JStr("DELETE"), JStr("mem-1"), JText(MemoryText)),
          Decision(JStr("NONE"), JStr("0"), JText(MemoryText)),
          NullDecision}

DecisionLists == UNION {[1..n -> DecisionPool] : n \in 0..MaxDecisions}

\* The ways the reconciliation call and the parsing of its answer can end.
ReconcileReplies ==
    {[kind |-> k, memory |-> <<>>] : k \in {"reject", "nocontent", "malformed", "notarray"}}
    \cup {[kind |-> "json", memory |-> ds] : ds \in DecisionLists}

(***************************************************************************)
(* Hook: agent_end, LLM path.                                              *)
(***************************************************************************)
Raised == [status |-> "raised", prependContext |-> NoContext]

\* The inner catch without the fall-through: the warning is logged and the
\* hook returns.
LlmCatchNoFallback ==
    /\ warnings' = warnings \cup {"llm capture failed"}
    /\ pc' = "done"
    /\ result' = IF entry = "agent_end" THEN Returned(NoContext) ELSE Raised
    /\ UNCHANGED <<facts, fi, counts>>

\* An error leaves llmExtractFacts, llmReconcileMemories or
\* applyMemoryDecisions.  In the hook the inner catch logs it and
\* heuristicCapture runs on the same messages; a direct caller gets it.
LlmCatch ==
    IF entry = "agent_end"
    THEN /\ warnings' = warnings \cup {"llm capture failed"}
         /\ HeuristicCaptureBegin
    ELSE /\ pc' = "done"
         /\ result' = Raised
         /\ UNCHANGED <<warnings, facts, fi, counts>>

\* agent_end with captureMode "llm" and a client: llmExtractFacts, and on
\* to the first await of llmReconcileMemories.
AgentEndLlm ==
    /\ pc = "idle"
    /\ entry = "agent_end"
    /\ captureMode = "llm" /\ openaiClient
    /\ LET lines == conversationLines(variant, lastN(event.messages, 10))
       IN  IF lines = <<>>
           THEN /\ pc' = "done"
                /\ result' = Returned(NoContext)
                /\ UNCHANGED <<llmCalls, warnings, facts, fi, counts>>
           ELSE \E reply \in ExtractReplies :
                     LET fs == IF reply.kind = "json" THEN stringFacts(reply.facts)
                               ELSE <<>>
                     IN  /\ llmCalls' = Append(llmCalls, [kind |-> "extract",
                                                 content |-> lines, reply |-> reply])
                         /\ IF Throws(reply) THEN LlmCatch
                            ELSE
                              /\ facts' = fs
                              /\ fi' = 1
                              /\ IF fs = <<>>
                                 THEN pc' = "done" /\ result' = Returned(NoContext)
                                 ELSE pc' = "r_search" /\ result' = result
                              /\ UNCHANGED <<warnings, counts>>
    /\ UNCHANGED <<config, calls, records, ready, listCalls, requests, uuids, nearby,
                   factsWithContext, idMapping, nextId, decisions, handled, applied>>

\* One iteration of the first loop of llmReconcileMemories.
ReconcileSearch ==
    /\ pc = "r_search"
    /\ \E e \in ensureIndex :
        LET req == [op |-> "search", id |-> "", text |-> facts[fi]]
        IN \/ /\ DbRequest(e, req, FALSE)
              /\ LlmCatch
              /\ UNCHANGED <<nearby, factsWithContext, idMapping, nextId>>
           \/ /\ e = "ok"
              /\ DbRequest(e, req, TRUE)
              /\ \E h \in BackendHits(summaryTopK) :
                    LET hits == search(h, similarityThreshold)
                        m == mapNearby(hits, idMapping, nextId)
                    IN  /\ nearby' = hits
                        /\ IF variant = "index.js"
                           THEN /\ factsWithContext' = Append(factsWithContext,
                                      [fact |-> facts[fi],
                                       existingMemories |-> existingMemoriesReal(hits)])
                                /\ UNCHANGED <<idMapping, nextId>>
                           ELSE /\ factsWithContext' = Append(factsWithContext,
                                      [fact |-> facts[fi], existingMemories |-> m[1]])
                                /\ idMapping' = m[2]
                                /\ nextId' = m[3]
              /\ fi' = fi + 1
              /\ pc' = IF fi = Len(facts) THEN "r_complete" ELSE "r_search"
              /\ UNCHANGED <<warnings, facts, counts, result>>
    /\ UNCHANGED <<config, calls, records, uuids, decisions, llmCalls, handled, applied>>

\* The prompt, the completion call, the parsing and the mapping back; in the
\* hook, on to the first await of applyMemoryDecisions.
ReconcileComplete ==
    /\ pc = "r_complete"
    /\ \E reply \in ReconcileReplies :
         LET parsed == IF reply.kind = "json" THEN reply.memory ELSE <<>>
             typeError == /\ variant = "part_000"
                          /\ \E k \in DOMAIN parsed : parsed[k].shape = "null"
         IN  /\ llmCalls' = Append(llmCalls, [kind |-> "reconcile",
                                     content |-> factsWithContext, reply |-> reply])
             /\ IF Throws(reply) \/ typeError
                THEN
                  /\ LlmCatch
                  /\ UNCHANGED decisions
                ELSE
                  /\ decisions' = returnedDecisions(variant, idMapping, parsed)
                  /\ fi' = 1
                  /\ counts' = ZeroCounts
                  /\ IF entry = "llmReconcileMemories" \/ parsed = <<>>
                     THEN pc' = "done" /\ result' = Returned(NoContext)
                     ELSE pc' = "apply" /\ result' = result
                  /\ UNCHANGED <<warnings, facts>>
    /\ UNCHANGED <<config, calls, records, ready, listCalls, requests, uuids, nearby,
                   factsWithContext, idMapping, nextId, handled, applied>>

(***************************************************************************)
(* applyMemoryDecisions.                                                   *)
(***************************************************************************)
\* (decision.event ?? "").toUpperCase()
eventOfCaseSensitive(d) == IF d.event.t = "undefined" THEN "" ELSE d.event.v

eventOf(d) == IF d.event.t = "undefined" THEN "" ELSE toUpperCase(d.event.v)

\* decision.text without the trim().
textOfUntrimmed(d) == IF d.text.t = "undefined" THEN <<>> ELSE d.text.v

\* decision.text?.trim(); an absent text is the empty sequence here.
textOf(d) == IF d.text.t = "undefined" THEN <<>> ELSE trim(d.text.v)

\* Reading event and text raises a TypeError before the try block is entered.
TypeErrorIn(d) == d.shape = "null" \/ d.event.t = "number" \/ d.text.t = "number"

\* firstStep without the test for the literal id "new".
firstStepNewIsAnId(d) ==
    LET ev == eventOf(d)
        text == textOf(d)
        noId == Falsy(d.id)
    IN  IF ev = "ADD" THEN (IF text = <<>> THEN "skip" ELSE "store")
        ELSE IF ev = "UPDATE" THEN (IF text = <<>> \/ noId THEN "skip" ELSE "update")
        ELSE IF ev = "DELETE" THEN (IF noId THEN "skip" ELSE "delete")
        ELSE IF ev = "NONE" THEN "none"
        ELSE "unknown"

\* firstStep with a DELETE that carries a text handled like an UPDATE: the
\* target is overwritten instead of deleted and replaced.
firstStepDeleteOverwrites(d) ==
    LET ev == eventOf(d)
        text == textOf(d)
        noId == Falsy(d.id) \/ (d.id.t = "string" /\ d.id.v = "new")
    IN  IF ev = "ADD" THEN (IF text = <<>> THEN "skip" ELSE "store")
        ELSE IF ev = "UPDATE" THEN (IF text = <<>> \/ noId THEN "skip" ELSE "update")
        ELSE IF ev = "DELETE"
             THEN (IF noId THEN "skip" ELSE IF text # <<>> THEN "update" ELSE "delete")
        ELSE IF ev = "NONE" THEN "none"
        ELSE "unknown"

\* What the switch does with a decision: the request it awaits first, or
\* "skip" (a suppressed ADD/UPDATE/DELETE), "none" or "unknown".
firstStep(d) ==
    LET ev == eventOf(d)
        text == textOf(d)
        noId == Falsy(d.id) \/ (d.id.t = "string" /\ d.id.v = "new")
    IN  IF ev = "ADD" THEN (IF text = <<>> THEN "skip" ELSE "store")
        ELSE IF ev = "UPDATE" THEN (IF text = <<>> \/ noId THEN "skip" ELSE "update")
        ELSE IF ev = "DELETE" THEN (IF noId THEN "skip" ELSE "delete")
        ELSE IF ev = "NONE" THEN "none"
        ELSE "unknown"

\* On to the next decision, or return stats.
ApplyNext ==
    /\ fi' = fi + 1
    /\ IF fi = Len(decisions)
       THEN pc' = "done" /\ result' = Returned(NoContext)
       ELSE pc' = "apply" /\ result' = result

\* The catch placed around the loop instead of inside it: the first failure
\* ends the loop.
ApplyCatchOutsideLoop ==
    /\ warnings' = warnings \cup {"failed to apply"}
    /\ counts' = counts
    /\ fi' = fi
    /\ pc' = "done"
    /\ result' = Returned(NoContext)

\* catch (err) { logger.warn("failed to apply ...") } inside the loop.
ApplyCatch ==
    /\ warnings' = warnings \cup {"failed to apply"}
    /\ counts' = counts
    /\ ApplyNext

Applied(ops, ok) == Append(applied, [index |-> fi, ops |-> ops, ok |-> ok])

\* One decision of the loop, up to and including its first awaited call.
ApplyDecision ==
    /\ pc = "apply"
    /\ LET d == decisions[fi]
           step == firstStep(d)
           text == textOf(d)
           id == IF step = "store" THEN randomUUID(uuids) ELSE d.id.v
           req == IF step = "delete" THEN [op |-> "delete", id |-> id, text |-> <<>>]
                  ELSE [op |-> "upsert", id |-> id, text |-> text]
       IN  IF TypeErrorIn(d)
           THEN /\ LlmCatch
                /\ UNCHANGED <<records, ready, listCalls, requests, uuids, applied>>
           ELSE IF step \in {"skip", "none", "unknown"}
           THEN /\ counts' = IF step = "none" THEN Bump(counts, "none") ELSE counts
                /\ warnings' = IF step = "unknown"
                               THEN warnings \cup {"unknown decision event"}
                               ELSE warnings
                /\ applied' = Applied(<<>>, TRUE)
                /\ ApplyNext
                /\ UNCHANGED <<records, ready, listCalls, requests, uuids, facts>>
           ELSE /\ uuids' = IF step = "store" THEN uuids + 1 ELSE uuids
                /\ UNCHANGED facts
                /\ \E e \in ensureIndex :
                       \/ /\ DbRequest(e, req, FALSE)
                          /\ applied' = Applied(<<req>>, FALSE)
                          /\ ApplyCatch
                          /\ UNCHANGED records
                       \/ /\ e = "ok"
                          /\ DbRequest(e, req, TRUE)
                          /\ applied' = Applied(<<req>>, TRUE)
                          /\ records' =
                               IF step = "delete" THEN delete(id)
                               ELSE IF step = "update"
                                    THEN update(id, text, detectCategory(text),
                                                "llm-extract")
                               ELSE store(id, text, detectCategory(text), "llm-extract")
                          /\ IF step = "delete" /\ text # <<>>
                             THEN /\ pc' = "apply_store"
                                  /\ UNCHANGED <<fi, counts, result>>
                             ELSE /\ counts' = Bump(counts,
                                       IF step = "delete" THEN "deleted"
                                       ELSE IF step = "update" THEN "updated"
                                       ELSE "added")
                                  /\ ApplyNext
                          /\ UNCHANGED warnings
    /\ UNCHANGED <<config, calls, nearby, factsWithContext, idMapping, nextId, decisions,
                   llmCalls, handled>>

\* DELETE with a text: the replacement record, stored after the delete.
ApplyReplacement ==
    /\ pc = "apply_store"
    /\ LET text == textOf(decisions[fi])
           id == randomUUID(uuids)
           req == [op |-> "upsert", id |-> id, text |-> text]
           last == applied[Len(applied)]
       IN  /\ uuids' = uuids + 1
           /\ \E e \in ensureIndex :
                  \/ /\ DbRequest(e, req, FALSE)
                     /\ applied' = [applied EXCEPT ![Len(applied)] =
                                       [last EXCEPT !.ops = Append(@, req), !.ok = FALSE]]
                     /\ ApplyCatch
                     /\ UNCHANGED records
                  \/ /\ e = "ok"
                     /\ DbRequest(e, req, TRUE)
                     /\ applied' = [applied EXCEPT ![Len(applied)] =
                                       [last EXCEPT !.ops = Append(@, req)]]
                     /\ records' = store(id, text, detectCategory(text), "llm-extract")
                     /\ counts' = Bump(counts, "deleted")
                     /\ ApplyNext
                     /\ UNCHANGED warnings
    /\ UNCHANGED <<config, calls, facts, nearby, factsWithContext, idMapping, nextId,
                   decisions, llmCalls, handled>>

(***************************************************************************)
(* PineconeMemoryDB called directly, by callers whose calls may overlap.   *)
(***************************************************************************)
\* The calls a caller can make, with their arguments.
\* A threshold a caller of search passes, other than the default.
callerThreshold == 60

\* search(query, topK = 5, threshold = 0.3) called with a topK and a threshold
\* of the caller's; isDuplicate(text) takes the text only.
SearchCalls ==
    {[op |-> "search", id |-> "", text |-> <<"dark", "mode">>, k |-> summaryTopK,
      threshold |-> callerThreshold],
     [op |-> "isDuplicate", id |-> "", text |-> LikeDark, k |-> 1,
      threshold |-> deduplicationThreshold]}

\* The callers of an instance either mix all its operations or only search it.
DbCalls ==
    IF entry = "PineconeMemoryDB.search" THEN SearchCalls
    ELSE {[op |-> "ensureIndex", id |-> "", text |-> <<>>, k |-> 0, threshold |-> 0],
          [op |-> "store", id |-> "mem-5", text |-> DislikeDark, k |-> 0,
           threshold |-> 0],
          [op |-> "update", id |-> "mem-1", text |-> DislikeDark, k |-> 0,
           threshold |-> 0],
          [op |-> "search", id |-> "", text |-> <<"dark", "mode">>, k |-> topK,
           threshold |-> similarityThreshold],
          [op |-> "delete", id |-> "mem-1", text |-> <<>>, k |-> 0, threshold |-> 0]}

\* The instance is used on its own.
DirectDb == entry \in {"PineconeMemoryDB", "PineconeMemoryDB.search"}

\* A caller that has not called yet.
NoCall == [op |-> "", id |-> "", text |-> <<>>, k |-> 0, threshold |-> 0,
           at |-> "idle", setup |-> 0, early |-> FALSE, outcome |-> "",
           answer |-> <<>>, hits |-> <<>>, value |-> Null]

NoCalls == [c \in 1..MaxCallers |-> NoCall]

\* ensureIndex that starts the set-up whether or not one was started before.
memoizedNever == FALSE

\* ensureIndex that keeps the set-up promise only while it is pending or
\* fulfilled, and starts over after a failure.
memoizedUnlessFailed == ready \in {"pending", "ok"}

\* if (this._ready) return this._ready;
memoized == ready # "null"

\* The synchronous part of ensureIndex/store/update/search/delete: all of them
\* call ensureIndex first, which starts the set-up (client.listIndexes()) when
\* no promise is kept in _ready, and then await the promise kept there.
DbCall ==
    /\ DirectDb
    /\ \E c \in DOMAIN calls, call \in DbCalls :
          /\ calls[c].at = "idle"
          /\ IF memoized
             THEN UNCHANGED <<ready, listCalls>>
             ELSE ready' = "pending" /\ listCalls' = listCalls + 1
          /\ calls' = [calls EXCEPT ![c] =
                         [op |-> call.op, id |-> call.id, text |-> call.text,
                          k |-> call.k, threshold |-> call.threshold,
                          at |-> "await", setup |-> listCalls',
                          early |-> ready \in {"null", "pending"},
                          outcome |-> "", answer |-> <<>>, hits |-> <<>>,
                          value |-> Null]]
    /\ UNCHANGED <<config, records, requests, uuids, pc, facts, fi, nearby, counts,
                   llmLocals, warnings, handled, result>>

\* listIndexes() answers or fails; the set-up promise settles, and _index is
\* assigned when the index is in the listing.
ListIndexesSettles ==
    /\ DirectDb
    /\ ready = "pending"
    /\ ready' \in {"ok", "missing", "rejected"}
    /\ UNCHANGED <<config, calls, records, listCalls, requests, uuids, pc, facts, fi,
                   nearby, counts, llmLocals, warnings, handled, result>>

\* await this.ensureIndex() that lets a missing index pass.
awaitEnsureIndexIgnoresMissing ==
    IF ready \in {"ok", "missing"} THEN "resolved" ELSE "listing rejected"

\* await this.ensureIndex() once the set-up promise has settled.
awaitEnsureIndex ==
    IF ready = "ok" THEN "resolved"
    ELSE IF ready = "missing" THEN "index not found"
    ELSE "listing rejected"

\* hits.length > 0 ? hits[0] : null
topHit(hits) == IF Len(hits) > 0 THEN hits[1] ELSE Null

\* A caller resumes after the set-up promise settled: the error is thrown to
\* it, or it sends its request through _index and gets the answer.  A search
\* keeps the backend's answer, the hits it returns and, for isDuplicate, the
\* value returned.
DbResume ==
    /\ DirectDb
    /\ ready \notin {"null", "pending"}
    /\ \E c \in DOMAIN calls :
          /\ calls[c].at = "await"
          /\ LET call == calls[c]
                 searching == call.op \in {"search", "isDuplicate"}
                 req == [op |-> IF call.op \in {"store", "update"} THEN "upsert"
                                ELSE IF searching THEN "search"
                                ELSE call.op,
                         id |-> call.id, text |-> call.text]
                 Done(outcome, h) ==
                     [calls EXCEPT ![c] =
                        [call EXCEPT !.at = "done",
                                     !.outcome = outcome,
                                     !.answer = Answer(h),
                                     !.hits = search(h, call.threshold),
                                     !.value = IF call.op = "isDuplicate"
                                               THEN topHit(isDuplicate(h))
                                               ELSE Null]]
             IN  IF awaitEnsureIndex # "resolved"
                 THEN /\ calls' = Done(awaitEnsureIndex, <<>>)
                      /\ UNCHANGED <<requests, records>>
                 ELSE IF call.op = "ensureIndex"
                 THEN /\ calls' = Done("resolved", <<>>)
                      /\ UNCHANGED <<requests, records>>
                 ELSE \/ /\ requests' = Append(requests,
                                 [op |-> req.op, id |-> req.id, text |-> req.text,
                                  ok |-> FALSE])
                         /\ calls' = Done("request rejected", <<>>)
                         /\ UNCHANGED records
                      \/ /\ requests' = Append(requests,
                                 [op |-> req.op, id |-> req.id, text |-> req.text,
                                  ok |-> TRUE])
                         /\ records' =
                              IF call.op = "delete" THEN delete(call.id)
                              ELSE IF searching THEN records
                              ELSE store(call.id, call.text, "general", "tool")
                         /\ \E h \in IF searching THEN BackendHits(call.k)
                                      ELSE {<<>>} :
                                calls' = Done("resolved", h)
    /\ UNCHANGED <<config, ready, listCalls, uuids, pc, facts, fi, nearby, counts,
                   llmLocals, warnings, handled, result>>

(***************************************************************************)
(* register(api).                                                          *)
(***************************************************************************)
\* resolveEnvVars(value), with none of the named environment variables set:
\* every ${NAME} is replaced by the empty string.
resolveEnvVars(value) ==
    IF value.t # "string" THEN value
    ELSE IF value.v = "${OPENAI_API_KEY}" THEN JStr("")
    ELSE value

\* createOpenAIClient that builds a client from any key.
createOpenAIClientWithoutKey(key) == "client"

\* createOpenAIClient(config): throws when the resolved key is falsy.
createOpenAIClient(key) ==
    IF Falsy(resolveEnvVars(key)) THEN "throws" ELSE "client"

\* The part of register() that decides about the OpenAI client; the hooks
\* are registered after it.
Register ==
    /\ pc = "register"
    /\ IF captureMode = "llm"
       THEN IF createOpenAIClient(openaiApiKey) = "client"
            THEN openaiClient' = TRUE /\ warnings' = warnings
            ELSE /\ openaiClient' = FALSE
                 /\ warnings' = warnings \cup {"failed to create OpenAI client"}
       ELSE openaiClient' = FALSE /\ warnings' = warnings
    /\ pc' = "idle"
    /\ UNCHANGED <<settings, calls, records, ready, listCalls, requests, uuids, facts,
                   fi, nearby, counts, llmLocals, handled, result>>

(***************************************************************************)
(* The helpers, called directly as the unit tests call them.               *)
(***************************************************************************)
NoArgs == [a |-> <<>>, b |-> <<>>]

\* What a helper returned.
Value(v) == [status |-> "returned", prependContext |-> NoContext, value |-> v]

\* The helper called returns v.
HelperReturns(v) ==
    /\ pc = "idle"
    /\ result' = Value(v)
    /\ pc' = "done"
    /\ UNCHANGED <<config, calls, records, ready, listCalls, requests, uuids, facts, fi,
                   nearby, counts, llmLocals, warnings, handled>>

\* A helper of one text is applied to args.a, a helper of two texts to
\* args.a and args.b.
CallStripMemoryTags ==
    /\ entry = "stripMemoryTags"
    /\ HelperReturns(stripMemoryTags(args.a))

CallNormalizeFact ==
    /\ entry = "normalizeFact"
    /\ HelperReturns(normalizeFact(args.a))

CallSimilarity ==
    /\ entry = "similarity"
    /\ HelperReturns(similarity(args.a, args.b))

CallIsContradiction ==
    /\ entry = "isContradiction"
    /\ HelperReturns(isContradiction(args.a, args.b))

\* The arguments of a hook or of a direct call, where a tool has params.
NoParams == [text |-> JNoText, category |-> JUndef, memoryId |-> JUndef,
             query |-> JNoText]

(***************************************************************************)
(* Tools: memory_store and memory_forget.                                  *)
(***************************************************************************)
\* db.search(query, 5, similarityThreshold) in memory_forget.
forgetTopK == 5

\* hits[0]._score >= 0.9 in memory_forget.
autoDeleteScore == 90

\* { content: [{ type: "text", text }] }: the sentence the text starts with
\* and the record ids it names.
ToolReturned(text, ids) ==
    [status |-> "returned", prependContext |-> NoContext, text |-> text, ids |-> ids]

\* catch (err) { return { content: [{ type: "text", text: ... }] } }
ToolCatch(text) ==
    /\ result' = ToolReturned(text, <<>>)
    /\ pc' = "done"

\* await db.ensureIndex() with no request after it.
SetupOnly(e) ==
    /\ ready' = e
    /\ listCalls' = IF ready = "null" THEN listCalls + 1 ELSE listCalls
    /\ requests' = requests

\* memory_store, up to and including the duplicate check.  facts keeps the
\* cleaned text and nearby the backend's answer to the duplicate search.
MemoryStore ==
    /\ pc = "idle"
    /\ entry = "memory_store"
    /\ \E e \in ensureIndex :
          IF e # "ok" \/ params.text.t # "string"
          THEN /\ SetupOnly(e)
               /\ ToolCatch("Failed to store memory")
               /\ UNCHANGED <<facts, nearby>>
          ELSE LET clean == normalizeFact(stripMemoryTags(params.text.v))
                   req == [op |-> "search", id |-> "", text |-> clean]
               IN  IF clean = <<>>
                   THEN /\ SetupOnly(e)
                        /\ result' = ToolReturned("Memory is empty after cleanup", <<>>)
                        /\ pc' = "done"
                        /\ UNCHANGED <<facts, nearby>>
                   ELSE \/ /\ DbRequest(e, req, FALSE)
                           /\ ToolCatch("Failed to store memory")
                           /\ UNCHANGED <<facts, nearby>>
                        \/ /\ DbRequest(e, req, TRUE)
                           /\ facts' = <<clean>>
                           /\ \E h \in BackendHits(1) :
                                 LET dup == isDuplicate(h)
                                 IN  /\ nearby' = Answer(h)
                                     /\ IF dup # <<>>
                                        THEN /\ result' = ToolReturned("Duplicate detected",
                                                                       <<dup[1]._id>>)
                                             /\ pc' = "done"
                                        ELSE /\ result' = result
                                             /\ pc' = "s_store"
    /\ UNCHANGED <<config, calls, records, uuids, fi, counts, llmLocals, warnings,
                   handled>>

\* memory_store: the record is stored under a new id.
MemoryStoreRecord ==
    /\ pc = "s_store"
    /\ LET clean == facts[1]
           id == randomUUID(uuids)
           cat == IF params.category.t = "undefined" THEN detectCategory(clean)
                  ELSE params.category.v
           req == [op |-> "upsert", id |-> id, text |-> clean]
       IN  /\ uuids' = uuids + 1
           /\ \E e \in ensureIndex :
                 \/ /\ DbRequest(e, req, FALSE)
                    /\ ToolCatch("Failed to store memory")
                    /\ UNCHANGED records
                 \/ /\ e = "ok"
                    /\ DbRequest(e, req, TRUE)
                    /\ records' = store(id, clean, cat, "tool")
                    /\ result' = ToolReturned("Memory stored", <<id>>)
                    /\ pc' = "done"
    /\ UNCHANGED <<config, calls, facts, fi, nearby, counts, llmLocals, warnings,
                   handled>>

\* memory_forget, up to and including its first request: the delete of
\* memoryId, or the search for query.  nearby keeps the hits of the search.
MemoryForget ==
    /\ pc = "idle"
    /\ entry = "memory_forget"
    /\ \E e \in ensureIndex :
          IF e # "ok"
          THEN /\ SetupOnly(e)
               /\ ToolCatch("Forget failed")
               /\ UNCHANGED <<records, nearby>>
          ELSE IF ~Falsy(params.memoryId)
          THEN LET id == params.memoryId.v
                   req == [op |-> "delete", id |-> id, text |-> <<>>]
               IN  \/ /\ DbRequest(e, req, FALSE)
                      /\ ToolCatch("Forget failed")
                      /\ UNCHANGED <<records, nearby>>
                   \/ /\ DbRequest(e, req, TRUE)
                      /\ records' = delete(id)
                      /\ result' = ToolReturned("Memory deleted", <<id>>)
                      /\ pc' = "done"
                      /\ UNCHANGED nearby
          ELSE IF params.query.t = "undefined" \/ params.query.v = <<>>
          THEN /\ SetupOnly(e)
               /\ result' = ToolReturned("Provide either memoryId or query", <<>>)
               /\ pc' = "done"
               /\ UNCHANGED <<records, nearby>>
          ELSE LET req == [op |-> "search", id |-> "", text |-> params.query.v]
               IN  \/ /\ DbRequest(e, req, FALSE)
                      /\ ToolCatch("Forget failed")
                      /\ UNCHANGED <<records, nearby>>
                   \/ /\ DbRequest(e, req, TRUE)
                      /\ UNCHANGED records
                      /\ \E h \in BackendHits(forgetTopK) :
                            LET hits == search(h, similarityThreshold)
                            IN  /\ nearby' = hits
                                /\ IF hits = <<>>
                                   THEN /\ result' = ToolReturned(
                                               "No matching memories found", <<>>)
                                        /\ pc' = "done"
                                   ELSE IF Len(hits) = 1
                                           \/ hits[1]._score >= autoDeleteScore
                                   THEN /\ result' = result
                                        /\ pc' = "f_delete"
                                   ELSE /\ result' = ToolReturned(
                                               "Multiple matches found",
                                               [k \in DOMAIN hits |-> hits[k]._id])
                                        /\ pc' = "done"
    /\ UNCHANGED <<config, calls, uuids, facts, fi, counts, llmLocals, warnings,
                   handled>>

\* memory_forget: the first hit is deleted.
MemoryForgetDelete ==
    /\ pc = "f_delete"
    /\ LET target == nearby[1]
           req == [op |-> "delete", id |-> target._id, text |-> <<>>]
       IN  \E e \in ensureIndex :
               \/ /\ DbRequest(e, req, FALSE)
                  /\ ToolCatch("Forget failed")
                  /\ UNCHANGED records
               \/ /\ e = "ok"
                  /\ DbRequest(e, req, TRUE)
                  /\ records' = delete(target._id)
                  /\ result' = ToolReturned("Deleted memory", <<target._id>>)
                  /\ pc' = "done"
    /\ UNCHANGED <<config, calls, uuids, facts, fi, nearby, counts, llmLocals,
                   warnings, handled>>

(***************************************************************************)
(* Specification.                                                          *)
(***************************************************************************)
\* Nothing has run yet: the database object is new, the control is at `at`.
FreshAt(at, fs, ds) ==
    /\ ready = "null"
    /\ listCalls = 0
    /\ requests = <<>>
    /\ uuids = 0
    /\ pc = at
    /\ facts = fs
    /\ fi = IF at \in {"idle", "register"} THEN 0 ELSE 1
    /\ nearby = <<>>
    /\ counts = ZeroCounts
    /\ factsWithContext = <<>>
    /\ idMapping = <<>>
    /\ nextId = 0
    /\ decisions = ds
    /\ llmCalls = <<>>
    /\ warnings = {}
    /\ handled = <<>>
    /\ applied = <<>>
    /\ result = [status |-> "pending", prependContext |-> NoContext]
    /\ calls = NoCalls

Fresh == FreshAt("idle", <<>>, <<>>)

\* The plugin registered without an OpenAI client: heuristic mode, or LLM
\* mode without a key.  The host calls one of the two hooks.
Init ==
    /\ variant = "index.js"
    /\ captureMode \in {"heuristic", "llm"}
    /\ openaiClient = FALSE
    /\ \/ /\ entry = "before_agent_start"
          /\ event \in [prompt : Prompts, messages : {<<>>}]
       \/ /\ entry = "agent_end"
          /\ event \in [prompt : {<<>>}, messages : MessageLists]
    /\ params = NoParams
    /\ args = NoArgs
    /\ openaiApiKey = (IF openaiClient THEN JStr("sk-test") ELSE JUndef)
    /\ records \in InitialStores
    /\ Fresh

Next ==
    \/ BeforeAgentStart
    \/ AgentEndHeuristic
    \/ HeuristicSearch
    \/ HeuristicApply

Spec == Init /\ [][Next]_vars

\* A few events for the runs that involve the LLM backend: one with a user
\* fact, one with a system message only, one with an assistant message
\* only, one with two facts.
LlmMessageLists ==
    {SubSeq(Conversation, 1, 1), SubSeq(Conversation, 2, 2), SubSeq(Conversation, 3, 3),
     SubSeq(Conversation, 5, 6)}

\* The plugin registered with an OpenAI client; the host calls one of the
\* two hooks.
InitLlm ==
    /\ variant \in {"index.js", "part_000"}
    /\ captureMode \in {"heuristic", "llm"}
    /\ openaiClient = TRUE
    /\ \/ /\ entry = "before_agent_start"
          /\ event \in [prompt : Prompts, messages : {<<>>}]
       \/ /\ entry = "agent_end"
          /\ event \in [prompt : {<<>>}, messages : LlmMessageLists]
    /\ params = NoParams
    /\ args = NoArgs
    /\ openaiApiKey = (IF openaiClient THEN JStr("sk-test") ELSE JUndef)
    /\ records \in {{}, {Mem1}}
    /\ Fresh

NextLlm ==
    \/ BeforeAgentStart
    \/ AgentEndHeuristic
    \/ AgentEndLlm
    \/ ReconcileSearch
    \/ ReconcileComplete
    \/ ApplyDecision
    \/ ApplyReplacement
    \/ HeuristicSearch
    \/ HeuristicApply

SpecLlm == InitLlm /\ [][NextLlm]_vars

\* llmReconcileMemories(openai, model, facts, db) called on its own.
FactLists == {<<>>, <<DislikeDark>>, <<DislikeDark, PreferEditor>>}

InitReconcile ==
    /\ entry = "llmReconcileMemories"
    /\ variant \in {"index.js", "part_000"}
    /\ captureMode = "llm"
    /\ openaiClient = TRUE
    /\ event = [prompt |-> <<>>, messages |-> <<>>]
    /\ params = NoParams
    /\ args = NoArgs
    /\ openaiApiKey = (IF openaiClient THEN JStr("sk-test") ELSE JUndef)
    /\ records \in {{}, {Mem1}, {Mem1, Mem2}}
    /\ \E fs \in FactLists :
         FreshAt(IF fs = <<>> THEN "r_complete" ELSE "r_search", fs, <<>>)

NextReconcile ==
    \/ ReconcileSearch
    \/ ReconcileComplete

SpecReconcile == InitReconcile /\ [][NextReconcile]_vars

\* applyMemoryDecisions(decisions, db, logger) called on its own.
InitApply ==
    /\ entry = "applyMemoryDecisions"
    /\ variant = "index.js"
    /\ captureMode = "llm"
    /\ openaiClient = TRUE
    /\ event = [prompt |-> <<>>, messages |-> <<>>]
    /\ params = NoParams
    /\ args = NoArgs
    /\ openaiApiKey = (IF openaiClient THEN JStr("sk-test") ELSE JUndef)
    /\ records \in {{}, {Mem1}}
    /\ \E ds \in DecisionLists \ {<<>>} : FreshAt("apply", <<>>, ds)

NextApply ==
    \/ ApplyDecision
    \/ ApplyReplacement

SpecApply == InitApply /\ [][NextApply]_vars

\* register(api) with any capture mode and OpenAI key, then one hook call.
ApiKeys == {JUndef, JStr(""), JStr("${OPENAI_API_KEY}"), JStr("sk-test")}

InitRegister ==
    /\ variant = "index.js"
    /\ captureMode \in {"heuristic", "llm"}
    /\ openaiApiKey \in ApiKeys
    /\ openaiClient = FALSE
    /\ \/ /\ entry = "before_agent_start"
          /\ event \in [prompt : Prompts, messages : {<<>>}]
       \/ /\ entry = "agent_end"
          /\ event \in [prompt : {<<>>}, messages : LlmMessageLists]
    /\ params = NoParams
    /\ args = NoArgs
    /\ records \in {{}, {Mem1}}
    /\ FreshAt("register", <<>>, <<>>)

NextRegister ==
    \/ Register
    \/ BeforeAgentStart
    \/ AgentEndHeuristic
    \/ AgentEndLlm
    \/ ReconcileSearch
    \/ ReconcileComplete
    \/ ApplyDecision
    \/ ApplyReplacement
    \/ HeuristicSearch
    \/ HeuristicApply

SpecRegister == InitRegister /\ [][NextRegister]_vars

\* The agent calls one of the tools memory_store and memory_forget.
StoreTexts ==
    {JNoText, JText(<<>>), JText(<<OpenTag, "old", "stuff", CloseTag>>),
     JText(<<OpenTag, "old", "stuff", CloseTag, "-">> \o PreferEditor),
     JText(DislikeDark), JText(Redis)}

ToolParams ==
    IF entry = "memory_store"
    THEN [text : StoreTexts, category : {JUndef, JStr("fact")},
          memoryId : {JUndef}, query : {JNoText}]
    ELSE [text : {JNoText}, category : {JUndef},
          memoryId : {JUndef, JStr(""), JStr("mem-1")},
          query : {JNoText, JText(<<>>), JText(<<"dark", "mode">>)}]

InitTools ==
    /\ entry \in {"memory_store", "memory_forget"}
    /\ variant = "index.js"
    /\ captureMode = "heuristic"
    /\ openaiApiKey = JUndef
    /\ openaiClient = FALSE
    /\ event = [prompt |-> <<>>, messages |-> <<>>]
    /\ params \in ToolParams
    /\ args = NoArgs
    /\ records \in InitialStores
    /\ Fresh

NextTools ==
    \/ MemoryStore
    \/ MemoryStoreRecord
    \/ MemoryForget
    \/ MemoryForgetDelete

SpecTools == InitTools /\ [][NextTools]_vars

\* A helper called on its own with texts of a few tokens.
TextsOver(alphabet, n) == UNION {[1..k -> alphabet] : k \in 0..n}

TagTexts == TextsOver({OpenTag, CloseTag, "old", NL}, MaxTextLen)

BulletTexts == TextsOver({"-", "1.", NL, "dark", "-dark"}, MaxTextLen)

CueTexts == TextsOver({"I", "like", "dislike", "dark", "mode."}, MaxPairLen)

InitHelpers ==
    /\ \/ /\ entry = "stripMemoryTags"
          /\ args \in [a : TagTexts, b : {<<>>}]
       \/ /\ entry = "normalizeFact"
          /\ args \in [a : BulletTexts, b : {<<>>}]
       \/ /\ entry \in {"similarity", "isContradiction"}
          /\ args \in [a : CueTexts, b : CueTexts]
    /\ variant = "index.js"
    /\ captureMode = "heuristic"
    /\ openaiApiKey = JUndef
    /\ openaiClient = FALSE
    /\ event = [prompt |-> <<>>, messages |-> <<>>]
    /\ params = NoParams
    /\ records = {}
    /\ Fresh

NextHelpers ==
    \/ CallStripMemoryTags
    \/ CallNormalizeFact
    \/ CallSimilarity
    \/ CallIsContradiction

SpecHelpers == InitHelpers /\ [][NextHelpers]_vars

\* A PineconeMemoryDB instance used directly by MaxCallers callers.
InitDb ==
    /\ entry = "PineconeMemoryDB"
    /\ variant = "index.js"
    /\ captureMode = "heuristic"
    /\ openaiClient = FALSE
    /\ event = [prompt |-> <<>>, messages |-> <<>>]
    /\ params = NoParams
    /\ args = NoArgs
    /\ openaiApiKey = (IF openaiClient THEN JStr("sk-test") ELSE JUndef)
    /\ records \in {{}, {Mem1}}
    /\ FreshAt("db", <<>>, <<>>)

NextDb ==
    \/ DbCall
    \/ ListIndexesSettles
    \/ DbResume

SpecDb == InitDb /\ [][NextDb]_vars

\* A PineconeMemoryDB instance whose callers search it.
InitSearch ==
    /\ entry = "PineconeMemoryDB.search"
    /\ variant = "index.js"
    /\ captureMode = "heuristic"
    /\ openaiClient = FALSE
    /\ event = [prompt |-> <<>>, messages |-> <<>>]
    /\ params = NoParams
    /\ args = NoArgs
    /\ openaiApiKey = (IF openaiClient THEN JStr("sk-test") ELSE JUndef)
    /\ records \in {{}, {Mem1}, {Mem1, Mem2}}
    /\ FreshAt("db", <<>>, <<>>)

NextSearch ==
    \/ DbCall
    \/ ListIndexesSettles
    \/ DbResume

SpecSearch == InitSearch /\ [][NextSearch]_vars





(***************************************************************************)
(* Properties of heuristic capture.                                        *)
(***************************************************************************)
\* The three checks of the loop body, each on one hit.
IsDuplicateOf(fact, hit) ==
    \/ hit._score >= deduplicationThreshold
    \/ AtLeast(similarity(fact, extractHitContent(hit)), 95)

Contradicts(fact, hit) ==
    /\ isContradiction(fact, extractHitContent(hit))
    /\ hit._score >= deleteThreshold

IsUpdateTargetOf(fact, hit) ==
    \/ hit._score >= updateThreshold
    \/ AtLeast(similarity(fact, extractHitContent(hit)), updateThreshold)

HasDuplicate(h) == \E j \in DOMAIN h.nearby : IsDuplicateOf(h.fact, h.nearby[j])

HasContradiction(h) == \E j \in DOMAIN h.nearby : Contradicts(h.fact, h.nearby[j])

HasUpdateTarget(h) == \E j \in DOMAIN h.nearby : IsUpdateTargetOf(h.fact, h.nearby[j])

HitIds(h) == {h.nearby[j]._id : j \in DOMAIN h.nearby}

UuidSet == {UuidNames[n] : n \in DOMAIN UuidNames}

\* The record the last handled fact left in the namespace.
LastWritten(h) ==
    [id |-> h.ops[1].id, content |-> h.fact, category |-> detectCategory(h.fact),
     role |-> "summary"]

\* C1: when a hit of the nearby search has relevance >= the deduplication
\* threshold, or lexical similarity >= 0.95 to the fact, nothing is stored,
\* updated or deleted for that fact, whatever else the hits qualify for.
C1_DuplicateIsNone ==
    \A k \in DOMAIN handled :
        HasDuplicate(handled[k]) =>
            /\ handled[k].ops = <<>>
            /\ handled[k].ok
            /\ counts.none >= 1

\* A fact handled with a hit that is a duplicate by relevance and also a
\* contradiction, and another with a hit that is a duplicate by its words
\* alone.
C1_Witness ==
    /\ \E k \in DOMAIN handled :
        /\ \E j \in DOMAIN handled[k].nearby :
              /\ handled[k].nearby[j]._score >= deduplicationThreshold
              /\ Contradicts(handled[k].fact, handled[k].nearby[j])
        /\ handled[k].ops = <<>>
    /\ pc = "done"

C1_WitnessLexical ==
    \E k \in DOMAIN handled :
        /\ \E j \in DOMAIN handled[k].nearby :
              /\ handled[k].nearby[j]._score < deduplicationThreshold
              /\ AtLeast(similarity(handled[k].fact,
                                    extractHitContent(handled[k].nearby[j])), 95)
        /\ handled[k].ops = <<>>

\* C2: for a fact with no duplicate hit and a contradicting hit of relevance
\* >= the delete threshold, the hit's id is deleted and the fact is then
\* stored as a replacement record under a newly generated id.
C2_ContradictionIsReplaced ==
    \A k \in DOMAIN handled :
        LET h == handled[k]
        IN  (~HasDuplicate(h) /\ HasContradiction(h) /\ h.ok) =>
                /\ Len(h.ops) = 2
                /\ h.ops[1].op = "delete" /\ h.ops[1].id \in HitIds(h)
                /\ h.ops[2].op = "upsert" /\ h.ops[2].text = h.fact
                /\ h.ops[2].id \in UuidSet

\* What the loop does instead: the contradicted memory is deleted, the hook
\* returns, and the new fact is in no request and in no record.
C2_DeletedWithoutReplacement ==
    /\ pc = "done"
    /\ Len(handled) = 1
    /\ handled[1].ok
    /\ handled[1].fact = DislikeDark
    /\ handled[1].nearby # <<>>
    /\ handled[1].nearby[1]._score = 60
    /\ handled[1].ops = <<[op |-> "delete", id |-> "mem-1", text |-> <<>>]>>
    /\ counts.deleted = 1
    /\ \A r \in records : r.content # DislikeDark

\* C3: for a fact with no duplicate hit and no contradiction hit, a hit with
\* relevance >= the update threshold or lexical similarity >= that threshold
\* gets exactly one update carrying the fact under the hit's existing id; no
\* delete is issued and no new id is drawn.
C3_UpdateKeepsId ==
    /\ \A k \in DOMAIN handled :
        LET h == handled[k]
        IN  (/\ ~HasDuplicate(h)
             /\ ~HasContradiction(h)
             /\ HasUpdateTarget(h)) =>
                /\ Len(h.ops) = 1
                /\ h.ops[1].op = "upsert"
                /\ h.ops[1].text = h.fact
                /\ \E j \in DOMAIN h.nearby :
                      /\ IsUpdateTargetOf(h.fact, h.nearby[j])
                      /\ h.ops[1].id = h.nearby[j]._id
                /\ (k = Len(handled) /\ h.ok) => LastWritten(h) \in records
    /\ uuids = Cardinality({k \in DOMAIN handled :
                    ~HasDuplicate(handled[k])
                    /\ ~HasContradiction(handled[k])
                    /\ ~HasUpdateTarget(handled[k])})

\* A fact that updated a memory, once by relevance and once by its words.
C3_Witness ==
    /\ \E k \in DOMAIN handled :
        /\ handled[k].ok
        /\ handled[k].ops # <<>>
        /\ handled[k].ops[1] = [op |-> "upsert", id |-> "mem-2", text |-> PreferEditor]
        /\ handled[k].nearby[1]._score = 88
    /\ uuids = 0
    /\ pc = "done"

\* C4: for a fact no hit of which passes the duplicate, contradiction or
\* update check, exactly one record is stored under a freshly generated id,
\* with the fact as text, detectCategory(fact) as category and the role that
\* marks turn capture; one capturable message with no nearby memory yields
\* exactly one stored record.
C4_AddStoresOneFreshRecord ==
    /\ \A k \in DOMAIN handled :
        LET h == handled[k]
        IN  (/\ ~HasDuplicate(h)
             /\ ~HasContradiction(h)
             /\ ~HasUpdateTarget(h)) =>
                /\ Len(h.ops) = 1
                /\ h.ops[1].op = "upsert"
                /\ h.ops[1].text = h.fact
                /\ h.ops[1].id \in UuidSet
                /\ h.ops[1].id \notin HitIds(h)
                /\ \A m \in DOMAIN handled :
                      (m < k /\ handled[m].ops # <<>>) =>
                          handled[m].ops[1].id # h.ops[1].id
                /\ (k = Len(handled) /\ h.ok) => LastWritten(h) \in records
    /\ (/\ pc = "done" /\ Len(facts) = 1 /\ Len(handled) = 1
        /\ handled[1].nearby = <<>> /\ handled[1].ok) =>
            /\ Len(SelectSeq(requests, LAMBDA r : r.op = "upsert")) = 1
            /\ Len(SelectSeq(requests, LAMBDA r : r.op = "delete")) = 0
            /\ counts = [added |-> 1, updated |-> 0, deleted |-> 0, none |-> 0]

\* The TypeScript message captured into an empty namespace.
C4_Witness ==
    /\ pc = "done"
    /\ Len(handled) = 1
    /\ handled[1].nearby = <<>>
    /\ records = {[id |-> "uuid-1", content |-> TS, category |-> "preference",
                   role |-> "summary"]}

\* Two facts of one batch, both added.
C4_WitnessTwoAdds ==
    /\ Len(handled) = 2
    /\ handled[1].ops # <<>> /\ handled[1].ops[1].id = "uuid-1"
    /\ handled[2].ops # <<>> /\ handled[2].ops[1].id = "uuid-2"

(***************************************************************************)
(* Properties of the hooks' error handling.                                *)
(***************************************************************************)
\* A completion call was rejected or answered with text that is not JSON.
LlmCallFailed == \E c \in DOMAIN llmCalls : llmCalls[c].reply.kind \in {"reject", "malformed"}

\* The one-time set-up succeeded (or was never needed) and the index
\* resolved every request.
StoreHealthy ==
    /\ ready \notin {"missing", "rejected"}
    /\ \A r \in DOMAIN requests : requests[r].ok

\* Some call to the store or to the LLM backend was rejected.
SomeCallRejected ==
    \/ ready \in {"missing", "rejected"}
    \/ \E r \in DOMAIN requests : ~requests[r].ok
    \/ \E c \in DOMAIN llmCalls : llmCalls[c].reply.kind = "reject"

\* C5: in LLM capture mode, when the extraction or the reconciliation call
\* fails (rejection, malformed JSON) agent_end does not raise, and heuristic
\* capture runs on the same messages and stores the capturable facts in them.
C5_LlmFailureFallsBack ==
    /\ result.status # "raised"
    /\ (entry = "agent_end" /\ captureMode = "llm" /\ LlmCallFailed) =>
          /\ "llm capture failed" \in warnings
          /\ pc \in {"h_search", "h_apply", "done"}
          /\ facts = extractConciseFacts(lastN(event.messages, 10))
          /\ (pc = "done" /\ StoreHealthy) =>
                /\ result = Returned(NoContext)
                /\ Len(handled) = Len(facts)
                /\ \A k \in DOMAIN handled :
                      /\ handled[k].fact = facts[k]
                      /\ handled[k].nearby = <<>> =>
                            \E r \in DOMAIN requests :
                                /\ requests[r].op = "upsert"
                                /\ requests[r].text = facts[k]
                                /\ requests[r].id \in UuidSet

\* The extraction call is rejected and the TypeScript message is stored by
\* the heuristic path.
C5_Witness ==
    /\ pc = "done"
    /\ captureMode = "llm"
    /\ Len(llmCalls) = 1
    /\ llmCalls[1].kind = "extract" /\ llmCalls[1].reply.kind = "reject"
    /\ \E r \in records : r.content = TS /\ r.role = "summary"

\* The reconciliation call answers with malformed JSON and the heuristic
\* path handles the facts of the messages.
C5_WitnessReconcile ==
    /\ pc = "done"
    /\ Len(llmCalls) = 2
    /\ llmCalls[2].kind = "reconcile" /\ llmCalls[2].reply.kind = "malformed"
    /\ Len(handled) = 2
    /\ StoreHealthy

\* C6: whatever call to the store or to the LLM backend is rejected, the
\* before_agent_start and agent_end hooks run to completion without raising;
\* recall then injects nothing and capture ends with a logged warning.
C6_HooksNeverRaise ==
    /\ result.status # "raised"
    /\ pc = "done" => result.status = "returned"
    /\ (pc = "done" /\ SomeCallRejected) =>
          IF entry = "before_agent_start"
          THEN result = Returned(NoContext) /\ "recall failed" \in warnings
          ELSE /\ result = Returned(NoContext)
               /\ warnings \cap {"capture failed", "llm capture failed",
                                 "failed to apply"} # {}

\* Recall with the search rejected by the index.
C6_Witness ==
    /\ pc = "done"
    /\ entry = "before_agent_start"
    /\ ready = "ok"
    /\ requests # <<>> /\ ~requests[1].ok
    /\ result = Returned(NoContext)

\* Capture with the completion rejected and then the fallback's write
\* rejected.
C6_WitnessCapture ==
    /\ pc = "done"
    /\ entry = "agent_end"
    /\ \E c \in DOMAIN llmCalls : llmCalls[c].reply.kind = "reject"
    /\ \E r \in DOMAIN requests : requests[r].op = "upsert" /\ ~requests[r].ok
    /\ warnings = {"llm capture failed", "capture failed"}

(***************************************************************************)
(* Properties of applyMemoryDecisions.                                     *)
(***************************************************************************)
\* Decisions that are objects with string (or absent) event and text.
WellFormed(ds) == \A k \in DOMAIN ds : ~TypeErrorIn(ds[k])

Counted(kinds) ==
    Cardinality({k \in DOMAIN applied :
        /\ applied[k].ok
        /\ applied[k].ops # <<>>
        /\ eventOf(decisions[k]) \in kinds})

RECURSIVE ShownMemories(_)
ShownMemories(fcs) ==
    IF fcs = <<>> THEN <<>>
    ELSE Head(fcs).existingMemories \o ShownMemories(Tail(fcs))

RealIds == {r.id : r \in records}

\* C8: one shared mapping per batch: placeholders are 0, 1, 2, ... in order
\* of first encounter, the same real memory always gets the same placeholder
\* in every fact's candidate set, and two memories never share one.
C8_SharedPlaceholderMapping ==
    LET shown == ShownMemories(factsWithContext)
    IN  /\ \A p \in DOMAIN shown :
              LET earlier == {shown[q].id : q \in 1..(p - 1)}
              IN  \/ shown[p].id \in earlier
                  \/ shown[p].id = String(Cardinality(earlier))
        /\ \A p, q \in DOMAIN shown :
              (shown[p].text = shown[q].text) <=> (shown[p].id = shown[q].id)
        /\ \A a, b \in DOMAIN idMapping :
              (idMapping[a][1] = idMapping[b][1] \/ idMapping[a][2] = idMapping[b][2])
                  => a = b

\* index.js: a memory is shown under its real id.
C8_NoPlaceholderAssigned ==
    /\ variant = "index.js"
    /\ pc = "r_complete"
    /\ Len(factsWithContext) = 1
    /\ Len(factsWithContext[1].existingMemories) = 1
    /\ factsWithContext[1].existingMemories[1].id = "mem-1"
    /\ idMapping = <<>>

\* C9: the reconciliation prompt identifies every existing memory by its
\* placeholder only: no id of a record of the store is sent to the backend.
C9_PromptHasNoRealIds ==
    \A c \in DOMAIN llmCalls :
        llmCalls[c].kind = "reconcile" =>
            LET shown == ShownMemories(llmCalls[c].content)
            IN  \A p \in DOMAIN shown : shown[p].id \notin RealIds

\* index.js: the completion call was made with a real id in the prompt.
C9_RealIdSent ==
    /\ variant = "index.js"
    /\ pc = "done"
    /\ \E c \in DOMAIN llmCalls :
          /\ llmCalls[c].kind = "reconcile"
          /\ \E f \in DOMAIN llmCalls[c].content :
                \E j \in DOMAIN llmCalls[c].content[f].existingMemories :
                    llmCalls[c].content[f].existingMemories[j].id = "mem-1"

\* C10: a returned decision carries the real id when its id is a placeholder
\* of the batch mapping, "new" when its id is "new", and its own id,
\* unchanged, when the id is absent from the mapping.
C10_ResponseIdsMapped ==
    (/\ entry = "llmReconcileMemories"
     /\ pc = "done"
     /\ result.status = "returned"
     /\ llmCalls[Len(llmCalls)].reply.kind = "json") =>
        LET memory == llmCalls[Len(llmCalls)].reply.memory
        IN  /\ Len(decisions) = Len(memory)
            /\ \A k \in DOMAIN memory :
                  LET id == memory[k].id
                      key == IF id.t = "undefined" THEN "undefined" ELSE id.v
                      entries == {a \in DOMAIN idMapping : idMapping[a][1] = key}
                  IN  IF id = JStr("new") THEN decisions[k].id = JStr("new")
                      ELSE IF entries # {}
                           THEN \E a \in entries : decisions[k].id = JStr(idMapping[a][2])
                      ELSE decisions[k].id = id

\* part_000: the backend answers with the id "constructor", which is no
\* placeholder of the batch, and the decision comes back with another id.
C10_InheritedPropertyReturned ==
    /\ variant = "part_000"
    /\ pc = "done"
    /\ result.status = "returned"
    /\ Len(decisions) = 1
    /\ llmCalls[Len(llmCalls)].reply.memory[1].id = JStr("constructor")
    /\ decisions[1].id # JStr("constructor")

\* part_000: placeholders of the mapping come back as the real ids.
C10_WitnessMappedBack ==
    /\ variant = "part_000"
    /\ pc = "done"
    /\ Len(decisions) = 1
    /\ llmCalls[Len(llmCalls)].reply.memory[1].id = JStr("0")
    /\ decisions[1].id = JStr("mem-1")

(***************************************************************************)
(* Properties of the single decisions of applyMemoryDecisions.             *)
(***************************************************************************)
\* decision.id is neither missing nor the literal "new".
HasRealId(d) == ~Falsy(d.id) /\ d.id # JStr("new")

\* The k-th decision has left the loop body (its replacement store, if any,
\* is no longer pending).
Finished(k) == k < Len(applied) \/ pc # "apply_store"

\* C11: a DELETE decision with a real id first deletes the target and then,
\* when its text is non-empty, stores the text as a new record under a
\* freshly generated id, never under the deleted id; deleted goes up by one.
C11_DeleteThenReplace ==
    (entry = "applyMemoryDecisions" /\ WellFormed(decisions)) =>
        /\ \A k \in DOMAIN applied :
              LET d == decisions[k]
                  a == applied[k]
              IN  (eventOf(d) = "DELETE" /\ HasRealId(d)) =>
                    /\ a.ops # <<>>
                    /\ a.ops[1] = [op |-> "delete", id |-> d.id.v, text |-> <<>>]
                    /\ Len(a.ops) <= 2
                    /\ Len(a.ops) = 2 =>
                          /\ textOf(d) # <<>>
                          /\ a.ops[2].op = "upsert"
                          /\ a.ops[2].text = textOf(d)
                          /\ a.ops[2].id \in UuidSet
                          /\ a.ops[2].id # d.id.v
                    /\ (Finished(k) /\ a.ok) => (Len(a.ops) = 2 <=> textOf(d) # <<>>)
                    /\ (k = Len(applied) /\ a.ok) =>
                          /\ \A r \in records : r.id # d.id.v
                          /\ Len(a.ops) = 2 =>
                                [id |-> a.ops[2].id, content |-> textOf(d),
                                 category |-> detectCategory(textOf(d)),
                                 role |-> "llm-extract"] \in records
        /\ pc = "done" =>
              counts.deleted = Cardinality({k \in DOMAIN applied :
                                  /\ eventOf(decisions[k]) = "DELETE"
                                  /\ HasRealId(decisions[k])
                                  /\ applied[k].ok})
        /\ \A r \in DOMAIN requests :
              (requests[r].op = "upsert" /\ requests[r].id \in UuidSet) =>
                  \A q \in 1..(r - 1) :
                      ~(requests[q].op = "delete" /\ requests[q].id = requests[r].id)

\* The memory mem-1 deleted and replaced by a record under a new id.
C11_Witness ==
    /\ entry = "applyMemoryDecisions"
    /\ pc = "done"
    /\ decisions = <<Decision(JStr("DELETE"), JStr("mem-1"), JText(MemoryText))>>
    /\ Len(requests) = 2
    /\ requests[1].op = "delete" /\ requests[1].id = "mem-1" /\ requests[1].ok
    /\ requests[2].op = "upsert" /\ requests[2].id = "uuid-1" /\ requests[2].ok
    /\ records = {[id |-> "uuid-1", content |-> MemoryText,
                   category |-> detectCategory(MemoryText), role |-> "llm-extract"]}
    /\ counts = [added |-> 0, updated |-> 0, deleted |-> 1, none |-> 0]

\* decision.text is missing, empty or made of whitespace only.
BlankText(d) ==
    \/ d.text.t = "undefined"
    \/ d.text.t = "string" /\ \A i \in DOMAIN d.text.v : d.text.v[i] = NL

\* decision.id is missing, empty or the literal "new".
NoIdOrNew(d) == d.id.t = "undefined" \/ d.id = JStr("") \/ d.id = JStr("new")

\* The decision at hand is an object whose event, ignoring case, is in kinds.
AtDecision(kinds) ==
    /\ entry = "applyMemoryDecisions"
    /\ pc = "apply"
    /\ decisions[fi].shape = "object"
    /\ decisions[fi].event.t = "string"
    /\ decisions[fi].text.t # "number"
    /\ toUpperCase(decisions[fi].event.v) \in kinds

\* The step over a decision sends nothing, counts nothing, warns of nothing
\* and goes on with the next decision.
DecisionSuppressed ==
    /\ requests' = requests
    /\ records' = records
    /\ listCalls' = listCalls
    /\ uuids' = uuids
    /\ counts' = counts
    /\ warnings' = warnings
    /\ result'.status # "raised"
    /\ fi' = fi + 1
    /\ pc' = IF fi = Len(decisions) THEN "done" ELSE "apply"

\* C12: an ADD or UPDATE decision whose text is missing, empty or whitespace
\* only makes no store or update call, increments no counter and is not
\* reported as an error.
C12_BlankTextSuppressed ==
    [][(AtDecision({"ADD", "UPDATE"}) /\ BlankText(decisions[fi]))
          => DecisionSuppressed]_vars

\* An ADD without text and an UPDATE with a whitespace-only text went by.
C12_Witness ==
    /\ entry = "applyMemoryDecisions"
    /\ pc = "done"
    /\ decisions = <<Decision(JStr("ADD"), JStr("new"), JNoText),
                     Decision(JStr("UPDATE"), JStr("mem-1"), JText(<<NL>>))>>
    /\ Len(applied) = 2
    /\ requests = <<>>
    /\ counts = ZeroCounts
    /\ warnings = {}
    /\ records = {Mem1}
    /\ result.status = "returned"

\* C13: an UPDATE or DELETE decision whose id is missing or the literal "new"
\* makes no update, delete or store call and increments no counter.
C13_NoIdSuppressed ==
    [][(AtDecision({"UPDATE", "DELETE"}) /\ NoIdOrNew(decisions[fi]))
          => DecisionSuppressed]_vars

\* An UPDATE of "new" and a DELETE without id, both carrying a text, went by.
C13_Witness ==
    /\ entry = "applyMemoryDecisions"
    /\ pc = "done"
    /\ decisions = <<Decision(JStr("UPDATE"), JStr("new"), JText(MemoryText)),
                     Decision(JStr("DELETE"), JUndef, JText(MemoryText))>>
    /\ Len(applied) = 2
    /\ requests = <<>>
    /\ counts = ZeroCounts
    /\ records = {Mem1}
    /\ result.status = "returned"

\* The decision's event is the string e, in any case.
EventIs(d, e) == d.event.t = "string" /\ toUpperCase(d.event.v) = e

\* A decision the switch passes over: an ADD or UPDATE without text, an UPDATE
\* or DELETE without a real id.
Suppressed(d) ==
    \/ (EventIs(d, "ADD") \/ EventIs(d, "UPDATE")) /\ BlankText(d)
    \/ (EventIs(d, "UPDATE") \/ EventIs(d, "DELETE")) /\ NoIdOrNew(d)

\* The decisions of event e that went through the loop body without a
\* failure and were not suppressed.
CountedAs(e) ==
    Cardinality({k \in DOMAIN applied :
        /\ Finished(k)
        /\ applied[k].ok
        /\ EventIs(decisions[k], e)
        /\ ~Suppressed(decisions[k])})

\* C14: each of added, updated, deleted and none is the number of decisions
\* of that event (in any case) applied without failure and not suppressed; a
\* NONE or unrecognised event sends no request and an unrecognised event
\* counts nowhere; the counters sum to at most the number of decisions, and
\* to exactly that number when every decision is an unsuppressed ADD, UPDATE,
\* DELETE or NONE and no call fails.
C14_StatsCountAppliedDecisions ==
    (entry = "applyMemoryDecisions" /\ WellFormed(decisions)) =>
        LET sum == counts.added + counts.updated + counts.deleted + counts.none
        IN  /\ counts.added = CountedAs("ADD")
            /\ counts.updated = CountedAs("UPDATE")
            /\ counts.deleted = CountedAs("DELETE")
            /\ counts.none = CountedAs("NONE")
            /\ \A k \in DOMAIN applied :
                  (\A e \in {"ADD", "UPDATE", "DELETE"} : ~EventIs(decisions[k], e))
                      => applied[k].ops = <<>> /\ applied[k].ok
            /\ sum <= Len(applied)
            /\ Len(applied) <= Len(decisions)
            /\ (/\ pc = "done"
                /\ \A k \in DOMAIN decisions :
                      /\ \E e \in {"ADD", "UPDATE", "DELETE", "NONE"} :
                             EventIs(decisions[k], e)
                      /\ ~Suppressed(decisions[k])
                /\ \A k \in DOMAIN applied : applied[k].ok)
                   => sum = Len(decisions)

\* A lower-case update is counted, an unrecognised event is not.
C14_Witness ==
    /\ entry = "applyMemoryDecisions"
    /\ pc = "done"
    /\ decisions = <<Decision(JStr("update"), JStr("mem-1"), JText(MemoryText)),
                     Decision(JStr("merge"), JStr("mem-1"), JText(MemoryText))>>
    /\ counts = [added |-> 0, updated |-> 1, deleted |-> 0, none |-> 0]
    /\ Len(requests) = 1 /\ requests[1].ok
    /\ "unknown decision event" \in warnings

\* Two well-formed decisions, no failure: the counters sum to two.
C14_WitnessAllCounted ==
    /\ entry = "applyMemoryDecisions"
    /\ pc = "done"
    /\ decisions = <<Decision(JStr("NONE"), JStr("mem-1"), JText(MemoryText)),
                     Decision(JStr("DELETE"), JStr("mem-1"), JText(MemoryText))>>
    /\ counts = [added |-> 0, updated |-> 0, deleted |-> 1, none |-> 1]
    /\ Len(requests) = 2

(***************************************************************************)
(* Properties of PineconeMemoryDB.                                         *)
(***************************************************************************)
\* C15: over every interleaving of ensureIndex, store, update, search and
\* delete calls on one instance, calls started before the set-up finished
\* included, the index listing is made at most once and every operation has
\* awaited that one set-up before it uses the index handle.
C15_SetupOnceAndAwaited ==
    entry = "PineconeMemoryDB" =>
        /\ listCalls <= 1
        /\ \A c \in DOMAIN calls :
              /\ calls[c].at # "idle" => listCalls = 1 /\ calls[c].setup = 1
              /\ calls[c].at = "done" => ready \notin {"null", "pending"}
              /\ (calls[c].at = "done" /\ calls[c].outcome \in {"resolved",
                                                                "request rejected"})
                    => ready = "ok"
        /\ requests # <<>> => ready = "ok"
        /\ Len(requests) = Cardinality({c \in DOMAIN calls :
                               /\ calls[c].at = "done"
                               /\ calls[c].op # "ensureIndex"
                               /\ ready = "ok"})

\* Two calls started before the set-up finished, both served by one listing.
C15_Witness ==
    /\ entry = "PineconeMemoryDB"
    /\ \A c \in DOMAIN calls :
          calls[c].at = "done" /\ calls[c].early /\ calls[c].outcome = "resolved"
    /\ calls[1].op = "store"
    /\ calls[2].op = "search"
    /\ listCalls = 1
    /\ Len(requests) = MaxCallers

\* C16: when the configured index is not in the listing, ensureIndex, store,
\* update, search and delete all fail with the index-not-found error and no
\* upsert, search or delete request is sent.
C16_MissingIndexFailsEveryCall ==
    (entry = "PineconeMemoryDB" /\ ready = "missing") =>
        /\ requests = <<>>
        /\ \A c \in DOMAIN calls :
              calls[c].at = "done" => calls[c].outcome = "index not found"

\* A store and a delete, both failed for the missing index.
C16_Witness ==
    /\ entry = "PineconeMemoryDB"
    /\ ready = "missing"
    /\ calls[1].op = "store" /\ calls[1].outcome = "index not found"
    /\ calls[2].op = "delete" /\ calls[2].outcome = "index not found"
    /\ requests = <<>>

(***************************************************************************)
(* Properties of register and of the hooks it installs.                    *)
(***************************************************************************)
\* config.openaiApiKey is absent, empty, or names an unset variable.
NoOpenAIKey ==
    \/ openaiApiKey.t = "undefined"
    \/ openaiApiKey.v \in {"", "${OPENAI_API_KEY}"}

\* C17: with captureMode "llm" and no OpenAI key, registration completes with
\* a warning logged, and the capture that follows takes the heuristic path
\* without any call to the LLM backend.
C17_NoKeyFallsBackToHeuristic ==
    (captureMode = "llm" /\ NoOpenAIKey /\ pc # "register") =>
        /\ "failed to create OpenAI client" \in warnings
        /\ ~openaiClient
        /\ llmCalls = <<>>
        /\ decisions = <<>> /\ applied = <<>>
        /\ result.status # "raised"
        /\ pc \in {"idle", "h_search", "h_apply", "done"}
        /\ (entry = "agent_end" /\ pc # "idle") =>
              facts = extractConciseFacts(lastN(event.messages, 10))

\* LLM mode without key: the capture stored a fact found by the heuristic
\* extraction, and the LLM backend was not called.
C17_Witness ==
    /\ captureMode = "llm"
    /\ openaiApiKey = JUndef
    /\ entry = "agent_end"
    /\ pc = "done"
    /\ "failed to create OpenAI client" \in warnings
    /\ llmCalls = <<>>
    /\ counts.added = 1
    /\ \E r \in DOMAIN requests : requests[r].op = "upsert" /\ requests[r].ok

(***************************************************************************)
(* Properties of the tools.                                                *)
(***************************************************************************)
\* The positions in the request log of the requests of kind op.
RequestsOf(op) == {r \in DOMAIN requests : requests[r].op = op}

\* memory_forget was called with a query and without a memoryId.
ForgetByQuery ==
    /\ entry = "memory_forget"
    /\ Falsy(params.memoryId)
    /\ params.query.t = "string" /\ params.query.v # <<>>

\* The search found exactly one memory, with relevance 0.9 or more.
SingleUnambiguousMatch == Len(nearby) = 1 /\ nearby[1]._score >= 90

\* C18: memory_forget with a query and no memoryId deletes a record only when
\* the search yields a single match of relevance 0.9 or more; in every other
\* case with at least one hit no delete is issued and the candidates are
\* listed; at most one record is deleted per invocation.
C18_ForgetDeletesOnlySureMatch ==
    ForgetByQuery =>
        /\ RequestsOf("delete") # {} => SingleUnambiguousMatch
        /\ (pc = "f_delete" \/ (pc = "done" /\ nearby # <<>>)) =>
              \/ SingleUnambiguousMatch
              \/ /\ pc = "done"
                 /\ RequestsOf("delete") = {}
                 /\ result.text = "Multiple matches found"
                 /\ result.ids = [k \in DOMAIN nearby |-> nearby[k]._id]
        /\ Cardinality(RequestsOf("delete")) <= 1

\* The only hit, of relevance 0.6, was deleted.
C18_DeletedLowRelevance ==
    /\ ForgetByQuery
    /\ pc = "done"
    /\ Len(nearby) = 1 /\ nearby[1]._score = 60 /\ nearby[1]._id = "mem-1"
    /\ Len(requests) = 2
    /\ requests[2] = [op |-> "delete", id |-> "mem-1", text |-> <<>>, ok |-> TRUE]
    /\ result.text = "Deleted memory"
    /\ records = {}

\* The first of two hits was deleted.
C18_DeletedFirstOfTwo ==
    /\ ForgetByQuery
    /\ pc = "done"
    /\ Len(nearby) = 2 /\ nearby[1]._score >= 90
    /\ RequestsOf("delete") # {}
    /\ result.text = "Deleted memory"

\* C19: memory_store stores nothing when the text is empty after cleanup;
\* when the top hit of the search for the cleaned text has relevance at or
\* above the deduplication threshold it stores nothing and answers with the
\* duplicate; otherwise it stores exactly one record under a fresh id, with
\* the given category or else the detected one; a failure is answered as a
\* text and never raised.
C19_MemoryStoreOutcomes ==
    entry = "memory_store" =>
        LET isString == params.text.t = "string"
            clean == normalizeFact(stripMemoryTags(params.text.v))
            cat == IF params.category = JUndef THEN detectCategory(clean)
                   ELSE params.category.v
            dup == nearby # <<>> /\ nearby[1]._score >= deduplicationThreshold
            failed == \/ ready \notin {"null", "ok"}
                      \/ ~isString
                      \/ \E r \in DOMAIN requests : ~requests[r].ok
        IN  /\ result.status # "raised"
            /\ pc = "done" => result.status = "returned"
            /\ Cardinality(RequestsOf("upsert")) <= 1
            /\ (isString /\ clean = <<>>) =>
                  /\ requests = <<>>
                  /\ (pc = "done" /\ ~failed) =>
                        result.text = "Memory is empty after cleanup"
            /\ dup =>
                  /\ pc = "done"
                  /\ RequestsOf("upsert") = {}
                  /\ result.text = "Duplicate detected"
                  /\ result.ids = <<nearby[1]._id>>
            /\ (pc = "done" /\ failed) =>
                  /\ result.text = "Failed to store memory"
                  /\ \A r \in RequestsOf("upsert") : ~requests[r].ok
            /\ (pc = "done" /\ ~failed /\ clean # <<>> /\ ~dup) =>
                  /\ result.text = "Memory stored"
                  /\ result.ids = <<"uuid-1">>
                  /\ Len(requests) = 2
                  /\ requests[2] = [op |-> "upsert", id |-> "uuid-1", text |-> clean,
                                    ok |-> TRUE]
                  /\ [id |-> "uuid-1", content |-> clean, category |-> cat,
                      role |-> "tool"] \in records
                  /\ \A k \in DOMAIN nearby : nearby[k]._id # "uuid-1"

\* A text with a memory block and a bullet was cleaned and stored under the
\* given category, next to a similar but not duplicate memory.
C19_Witness ==
    /\ entry = "memory_store"
    /\ pc = "done"
    /\ params.text = JText(<<OpenTag, "old", "stuff", CloseTag, "-">> \o PreferEditor)
    /\ params.category = JStr("fact")
    /\ nearby # <<>> /\ nearby[1]._score = 88
    /\ result.text = "Memory stored"
    /\ [id |-> "uuid-1", content |-> PreferEditor, category |-> "fact",
        role |-> "tool"] \in records

\* The top hit is at the deduplication threshold or above: nothing stored.
C19_WitnessDuplicate ==
    /\ entry = "memory_store"
    /\ pc = "done"
    /\ nearby # <<>> /\ nearby[1]._score = 97
    /\ result.text = "Duplicate detected"
    /\ RequestsOf("upsert") = {}

(***************************************************************************)
(* Properties of the recall hook.                                          *)
(***************************************************************************)
\* The hits of the search that have a text, in the order of the search.
HitsWithText == SelectSeq(nearby, LAMBDA hit : trim(hit.content) # <<>>)

\* C20: the recall hook injects nothing and searches nothing when the trimmed
\* prompt is absent or shorter than 5 characters; otherwise the block is the
\* open delimiter, one line per returned hit with a non-empty text, in search
\* order, and the close delimiter; a hit without text gives no line, and
\* with no line nothing is injected.
C20_RecallBlock ==
    (entry = "before_agent_start" /\ pc = "done") =>
        LET prompt == trim(event.prompt)
            block == result.prependContext
        IN  IF prompt = <<>> \/ TextLen(prompt) < 5
            THEN /\ requests = <<>>
                 /\ listCalls = 0
                 /\ result = Returned(NoContext)
            ELSE /\ Len(requests) <= 1
                 /\ \A r \in DOMAIN requests :
                       requests[r].op = "search" /\ requests[r].text = prompt
                 /\ result.status = "returned"
                 /\ IF requests = <<>> \/ ~requests[1].ok \/ HitsWithText = <<>>
                    THEN block = NoContext
                    ELSE /\ block.open = OpenTag
                         /\ block.close = CloseTag
                         /\ Len(block.lines) = Len(HitsWithText)
                         /\ \A k \in DOMAIN block.lines :
                               /\ block.lines[k].content = trim(HitsWithText[k].content)
                               /\ block.lines[k].score = HitsWithText[k]._score
                               /\ block.lines[k].category = HitsWithText[k].category

\* Three kinds of recall: a hit without text next to one with text gives one
\* line; two hits with text give two lines in search order; only a hit
\* without text gives no block.
C20_Witness ==
    /\ entry = "before_agent_start"
    /\ pc = "done"
    /\ Len(nearby) = 2
    /\ nearby[1]._id = "mem-3" /\ nearby[2]._id = "mem-1"
    /\ result.prependContext.open = OpenTag
    /\ Len(result.prependContext.lines) = 1
    /\ result.prependContext.lines[1].content = LikeDark

C20_WitnessTwoLines ==
    /\ entry = "before_agent_start"
    /\ pc = "done"
    /\ Len(nearby) = 2
    /\ nearby[1]._id = "mem-2" /\ nearby[2]._id = "mem-1"
    /\ Len(result.prependContext.lines) = 2
    /\ result.prependContext.lines[1].content = AlwaysDark
    /\ result.prependContext.lines[2].content = LikeDark

C20_WitnessNoText ==
    /\ entry = "before_agent_start"
    /\ pc = "done"
    /\ Len(nearby) = 1 /\ nearby[1]._id = "mem-3"
    /\ result = Returned(NoContext)

C20_WitnessShortPrompt ==
    /\ entry = "before_agent_start"
    /\ pc = "done"
    /\ event.prompt = <<NL, "hi", NL>>
    /\ requests = <<>>
    /\ result = Returned(NoContext)

(***************************************************************************)
(* Properties of the helpers.                                              *)
(***************************************************************************)
\* The text holds an open or a close delimiter.
HasDelimiter(t) == \E i \in DOMAIN t : t[i] \in {OpenTag, CloseTag}

\* C21: stripMemoryTags removes every delimiter-wrapped span, and for every
\* input its result contains no open and no close delimiter.
C21_StrippedTextHasNoDelimiter ==
    (entry = "stripMemoryTags" /\ pc = "done") => ~HasDelimiter(result.value)

\* An open delimiter that no close delimiter follows stays in the result.
C21_DelimiterLeft ==
    /\ entry = "stripMemoryTags"
    /\ pc = "done"
    /\ args.a = <<OpenTag, "old">>
    /\ result.value = <<OpenTag, "old">>

\* Two adjacent blocks are both removed.
C21_WitnessAdjacentBlocks ==
    /\ entry = "stripMemoryTags"
    /\ pc = "done"
    /\ args.a = <<OpenTag, CloseTag, OpenTag, CloseTag>>
    /\ result.value = <<>>

\* The text left after a nested block ends with a close delimiter.
C21_CloseDelimiterLeft ==
    /\ entry = "stripMemoryTags"
    /\ pc = "done"
    /\ args.a = <<OpenTag, OpenTag, CloseTag, CloseTag>>
    /\ result.value = <<CloseTag>>

(***************************************************************************)
(* Properties of the capture paths.                                        *)
(***************************************************************************)
\* The messages of the capture window written under one of the roles.
WindowOf(roles) == SelectSeq(lastN(event.messages, 10), LAMBDA m : m.role \in roles)

\* The sentences the heuristic extraction finds in the user's messages.
UserSentences ==
    LET fs == extractConciseFacts(WindowOf({"user"}))
    IN  {fs[k] : k \in DOMAIN fs}

\* agent_end runs the heuristic capture from the start.
HeuristicMode == entry = "agent_end" /\ ~(captureMode = "llm" /\ openaiClient)

\* C22: fact extraction takes its facts from user and assistant messages
\* only, and heuristic capture uses user-authored text only: no sentence of
\* an assistant message is stored as a memory by heuristic capture.
C22_HeuristicStoresUserTextOnly ==
    (HeuristicMode /\ pc # "idle") =>
        /\ facts = extractConciseFacts(WindowOf({"user", "assistant"}))
        /\ \A r \in DOMAIN requests :
              requests[r].op = "upsert" => requests[r].text \in UserSentences

\* The sentence of an assistant message was stored as a new memory.
C22_AssistantSentenceStored ==
    /\ HeuristicMode
    /\ pc = "done"
    /\ event.messages = <<Conversation[3]>>
    /\ Len(requests) = 2
    /\ requests[2] = [op |-> "upsert", id |-> "uuid-1", text |-> Redis, ok |-> TRUE]
    /\ \E rec \in records : rec.content = Redis /\ rec.role = "summary"

\* A system message next to a user message contributes no fact.
C22_WitnessSystemIgnored ==
    /\ HeuristicMode
    /\ pc = "done"
    /\ event.messages = <<Conversation[1], Conversation[2]>>
    /\ facts = <<TS>>

\* The stripped, non-blank texts of the user messages of the window.
UserTexts ==
    LET ms == WindowOf({"user"})
        ts == [k \in DOMAIN ms |-> stripMemoryTags(contentText(ms[k]))]
    IN  SelectSeq(ts, LAMBDA t : \E i \in DOMAIN t : t[i] # NL)

\* agent_end runs the LLM capture.
LlmMode == entry = "agent_end" /\ captureMode = "llm" /\ openaiClient

\* The extraction calls made so far.
ExtractCalls == SelectSeq(llmCalls, LAMBDA c : c.kind = "extract")

\* The entries of parsed.facts that are strings with something in them.
NonEmptyStrings(fs) ==
    LET kept == SelectSeq(fs, LAMBDA f : /\ f.t = "string"
                                         /\ \E i \in DOMAIN f.v : f.v[i] # NL)
    IN  [k \in DOMAIN kept |-> kept[k].v]

\* C23: the LLM extraction prompt is made of the user-authored messages only,
\* each stripped of memory blocks; with no non-empty user text the backend is
\* not called and there are no facts; the facts are the non-empty strings of
\* the answer.
C23_ExtractionPromptIsUserText ==
    LlmMode =>
        /\ Len(ExtractCalls) <= 1
        /\ \A c \in DOMAIN ExtractCalls :
              [k \in DOMAIN ExtractCalls[c].content |-> ExtractCalls[c].content[k].text]
                  = UserTexts
        /\ UserTexts = <<>> =>
              /\ llmCalls = <<>>
              /\ pc = "done" => facts = <<>> /\ requests = <<>>
        /\ (/\ ExtractCalls # <<>>
            /\ ~Throws(ExtractCalls[1].reply)
            /\ "llm capture failed" \notin warnings) =>
              facts = IF ExtractCalls[1].reply.kind = "json"
                      THEN NonEmptyStrings(ExtractCalls[1].reply.facts)
                      ELSE <<>>

\* The backend was called with the text of an assistant message.
C23_AssistantTextSent ==
    /\ LlmMode
    /\ variant = "index.js"
    /\ event.messages = <<Conversation[3]>>
    /\ Len(llmCalls) = 1
    /\ llmCalls[1].kind = "extract"
    /\ llmCalls[1].content = <<[role |-> "assistant", text |-> <<"hi", NL>> \o Redis]>>

\* Of four entries of the answer, the two non-empty strings are the facts.
C23_WitnessStringsKept ==
    /\ LlmMode
    /\ pc = "r_search"
    /\ Len(llmCalls) = 1
    /\ Len(llmCalls[1].reply.facts) = 4
    /\ facts = <<DislikeDark, PreferEditor>>

\* The extraction call came back without an error and without a fact.
ExtractedNothing ==
    /\ Len(ExtractCalls) = 1
    /\ ExtractCalls[1].reply.kind \in {"json", "nocontent", "notarray"}
    /\ ExtractCalls[1].reply.kind = "json" =>
          NonEmptyStrings(ExtractCalls[1].reply.facts) = <<>>

\* C24: in LLM capture mode, when the extraction succeeds with zero facts the
\* capture ends there: no reconciliation call, no store request, no run of
\* the heuristic path.
C24_NoFactsEndsCapture ==
    (LlmMode /\ ExtractedNothing) =>
        /\ pc = "done"
        /\ result = Returned(NoContext)
        /\ Len(llmCalls) = 1
        /\ requests = <<>>
        /\ listCalls = 0
        /\ facts = <<>> /\ handled = <<>> /\ decisions = <<>> /\ applied = <<>>
        /\ warnings = {}
        /\ counts = ZeroCounts

\* The backend answered {"facts": []} for a user message with a fact in it.
C24_Witness ==
    /\ LlmMode
    /\ pc = "done"
    /\ event.messages = <<Conversation[1]>>
    /\ Len(llmCalls) = 1
    /\ llmCalls[1].reply = [kind |-> "json", facts |-> <<>>]
    /\ requests = <<>>
    /\ extractConciseFacts(event.messages) # <<>>


(***************************************************************************)
(* Properties of search and isDuplicate.                                   *)
(***************************************************************************)
\* A search or isDuplicate call that got the backend's answer.
Searched(c) ==
    /\ calls[c].op \in {"search", "isDuplicate"}
    /\ calls[c].at = "done"
    /\ calls[c].outcome = "resolved"

\* The positions of the backend's answer whose score reaches the threshold.
Reaching(answer, threshold) == {k \in DOMAIN answer : answer[k]._score >= threshold}

\* C25: search returns exactly the backend hits whose score is >= the
\* requested threshold, in the backend's order; isDuplicate returns the top
\* hit when its score is >= the deduplication threshold and null otherwise.
C25_SearchReturnsHitsAtOrAboveThreshold ==
    DirectDb =>
        \A c \in DOMAIN calls :
            Searched(c) =>
                LET call == calls[c]
                    keep == Reaching(call.answer, call.threshold)
                IN  /\ Len(call.hits) = Cardinality(keep)
                    /\ \A k \in keep :
                          call.hits[Cardinality({j \in keep : j <= k})] = call.answer[k]
                    /\ \A i \in DOMAIN call.hits :
                          call.hits[i]._score >= call.threshold
                    /\ call.op = "isDuplicate" =>
                          call.value =
                            IF /\ call.answer # <<>>
                               /\ call.answer[1]._score >= deduplicationThreshold
                            THEN call.answer[1]
                            ELSE Null

\* A search whose answer has a hit exactly at the threshold, kept, and a
\* hit below it, dropped.
C25_Witness ==
    /\ entry = "PineconeMemoryDB.search"
    /\ \E c \in DOMAIN calls :
          /\ Searched(c)
          /\ calls[c].op = "search"
          /\ Len(calls[c].answer) = 2
          /\ calls[c].answer[1]._score = calls[c].threshold
          /\ calls[c].answer[2]._score < calls[c].threshold
          /\ calls[c].hits = <<calls[c].answer[1]>>

\* isDuplicate that returned the top hit.
C25_WitnessDuplicate ==
    /\ entry = "PineconeMemoryDB.search"
    /\ \E c \in DOMAIN calls :
          /\ Searched(c)
          /\ calls[c].op = "isDuplicate"
          /\ calls[c].answer # <<>>
          /\ calls[c].value = calls[c].answer[1]
          /\ calls[c].answer[1]._score >= deduplicationThreshold

\* isDuplicate that returned null for a hit below the deduplication threshold.
C25_WitnessNoDuplicate ==
    /\ entry = "PineconeMemoryDB.search"
    /\ \E c \in DOMAIN calls :
          /\ Searched(c)
          /\ calls[c].op = "isDuplicate"
          /\ Len(calls[c].answer) = 1
          /\ calls[c].answer[1]._score >= similarityThreshold
          /\ calls[c].value = Null


(***************************************************************************)
(* Properties of the text helpers.                                         *)
(***************************************************************************)
\* A helper called on its own has returned.
HelperDone(helper) == entry = helper /\ pc = "done"

\* The two texts share at least 35 in 100 of the tokens either has.
OverlapAtLeast35(a, b) ==
    /\ tokenSet(a) # {} /\ tokenSet(b) # {}
    /\ 100 * Cardinality(tokenSet(a) \cap tokenSet(b))
          >= 35 * Cardinality(tokenSet(a) \cup tokenSet(b))

\* C26: isContradiction(new, old) is true only if similarity(new, old) >= 0.35
\* and one text has a negation cue while the other has a positive cue; it
\* is symmetric in its arguments and false when neither text has a negation
\* cue.
C26_ContradictionNeedsOverlapAndOppositeCues ==
    HelperDone("isContradiction") =>
        /\ result.value \in BOOLEAN
        /\ result.value =>
              /\ OverlapAtLeast35(args.a, args.b)
              /\ \/ NegCue(args.a) /\ PosCue(args.b)
                 \/ PosCue(args.a) /\ NegCue(args.b)
        /\ result.value = isContradiction(args.b, args.a)
        /\ (~NegCue(args.a) /\ ~NegCue(args.b)) => result.value = FALSE

\* "like dark mode." against "dislike dark mode.": a contradiction.
C26_Witness ==
    /\ HelperDone("isContradiction")
    /\ args = [a |-> <<"like", "dark", "mode.">>, b |-> <<"dislike", "dark", "mode.">>]
    /\ result.value = TRUE

\* Opposite cues with an overlap of one token in three: no contradiction.
C26_WitnessLowOverlap ==
    /\ HelperDone("isContradiction")
    /\ args = [a |-> <<"like", "dark">>, b |-> <<"dislike", "dark">>]
    /\ result.value = FALSE


\* Two fractions <<numerator, denominator>> of the same value.
SameFraction(r, q) == r[1] * q[2] = q[1] * r[2]

\* C27: similarity is the Jaccard index of the two token sets: it is
\* symmetric, lies between 0 and 1, is 1 for a text against itself when the
\* text has a token of more than 2 characters, and is 0 when either token set
\* is empty.
C27_SimilarityIsJaccard ==
    HelperDone("similarity") =>
        LET aSet == tokenSet(args.a)
            bSet == tokenSet(args.b)
            s == result.value
        IN  /\ s[2] > 0 /\ 0 <= s[1] /\ s[1] <= s[2]
            /\ SameFraction(s, similarity(args.b, args.a))
            /\ (aSet # {} /\ bSet # {}) =>
                  SameFraction(s, <<Cardinality(aSet \cap bSet),
                                    Cardinality(aSet \cup bSet)>>)
            /\ (args.a = args.b /\ aSet # {}) => s[1] = s[2]
            /\ (aSet = {} \/ bSet = {}) => s[1] = 0

\* Two of four tokens shared: one half.
C27_Witness ==
    /\ HelperDone("similarity")
    /\ args = [a |-> <<"like", "dark", "mode.">>, b |-> <<"dislike", "dark", "mode.">>]
    /\ SameFraction(result.value, <<1, 2>>)

\* A text against itself: 1.
C27_WitnessSelf ==
    /\ HelperDone("similarity")
    /\ args.a = <<"I", "like", "dark">>
    /\ args.b = args.a
    /\ SameFraction(result.value, <<1, 1>>)

\* A text whose only word has one character has no token: 0, also against
\* itself.
C27_WitnessNoToken ==
    /\ HelperDone("similarity")
    /\ args = [a |-> <<"I">>, b |-> <<"I">>]
    /\ result.value[1] = 0


\* C28: normalizeFact is idempotent: normalizing a normalized text gives the
\* same text.
C28_NormalizeFactIdempotent ==
    HelperDone("normalizeFact") =>
        /\ result.value = normalizeFact(args.a)
        /\ normalizeFact(result.value) = result.value

\* Two bullets, a newline and a word glued to a dash: "dark dark" is left, and
\* stays.
C28_Witness ==
    /\ HelperDone("normalizeFact")
    /\ args.a = <<"-", "1.", "-dark", "dark">>
    /\ result.value = <<"dark", "dark">>

\* Markers after the first word are kept, whitespace between is collapsed.
C28_WitnessInnerMarker ==
    /\ HelperDone("normalizeFact")
    /\ args.a = <<NL, "dark", NL, "-">>
    /\ result.value = <<"dark", "-">>


(***************************************************************************)
(* Properties of a capture batch.                                          *)
(***************************************************************************)
\* The requests the index did not resolve.
FailedRequests == {r \in DOMAIN requests : ~requests[r].ok}

\* The index is there and exactly one request failed, an upsert or a delete
\* that was to persist the outcome for one fact.
OnePersistFailure ==
    /\ ready = "ok"
    /\ Cardinality(FailedRequests) = 1
    /\ \A r \in FailedRequests : requests[r].op \in {"upsert", "delete"}

\* C29: when persisting the outcome for one fact of a capture batch fails, the
\* failure is isolated to that fact: the remaining facts of the batch are
\* still reconciled and persisted (stated for the heuristic path).
C29_PersistFailureIsolated ==
    (HeuristicMode /\ pc = "done" /\ OnePersistFailure) =>
        /\ Len(handled) = Len(facts)
        /\ \A k \in DOMAIN facts : handled[k].fact = facts[k]

\* Two user messages with a fact each, the store of the first fact failed:
\* the capture ended there, the second fact was neither searched for nor
\* stored.
C29_SecondFactDropped ==
    /\ HeuristicMode
    /\ pc = "done"
    /\ event.messages = <<Conversation[5], Conversation[6]>>
    /\ records = {}
    /\ facts = <<PreferEditor, DislikeDark>>
    /\ OnePersistFailure
    /\ Len(handled) = 1 /\ ~handled[1].ok
    /\ requests = <<[op |-> "search", id |-> "", text |-> facts[1], ok |-> TRUE],
                    [op |-> "upsert", id |-> "uuid-1", text |-> facts[1], ok |-> FALSE]>>
    /\ "capture failed" \in warnings


\* The positions of the nearby hits that qualify for the contradiction check
\* and for the update check of a handled fact.
ContradictingAt(h) == {j \in DOMAIN h.nearby : Contradicts(h.fact, h.nearby[j])}

UpdateTargetsAt(h) == {j \in DOMAIN h.nearby : IsUpdateTargetOf(h.fact, h.nearby[j])}

\* The hit with this id is the first of those at the given positions.
FirstAt(h, positions, id) ==
    \E j \in positions : h.nearby[j]._id = id /\ \A i \in positions : j <= i

\* C30: when several nearby hits qualify for the same check of heuristic
\* capture, the hit acted on is the first qualifying one in the order search
\* returned: the record deleted is the first contradicted hit, the record
\* overwritten the first update target.
C30_FirstQualifyingHitActedOn ==
    \A k \in DOMAIN handled :
        LET h == handled[k]
        IN  h.ops # <<>> =>
              /\ h.ops[1].op = "delete" =>
                    FirstAt(h, ContradictingAt(h), h.ops[1].id)
              /\ (h.ops[1].op = "upsert" /\ h.ops[1].id \in HitIds(h)) =>
                    FirstAt(h, UpdateTargetsAt(h), h.ops[1].id)

\* Two hits that the fact contradicts: the first one is deleted.
C30_Witness ==
    /\ HeuristicMode
    /\ pc = "done"
    /\ \E k \in DOMAIN handled :
          /\ Cardinality(ContradictingAt(handled[k])) = 2
          /\ handled[k].ok
          /\ handled[k].ops # <<>>
          /\ handled[k].ops[1].op = "delete"
          /\ handled[k].ops[1].id = handled[k].nearby[1]._id
          /\ handled[k].nearby[1]._id = "mem-6"

\* Two update targets of the same score: the first one is overwritten.
C30_WitnessUpdate ==
    /\ HeuristicMode
    /\ pc = "done"
    /\ \E k \in DOMAIN handled :
          /\ Cardinality(UpdateTargetsAt(handled[k])) = 2
          /\ handled[k].nearby[1]._score = handled[k].nearby[2]._score
          /\ handled[k].ok
          /\ handled[k].ops # <<>>
          /\ handled[k].ops[1].op = "upsert"
          /\ handled[k].ops[1].id = handled[k].nearby[1]._id
          /\ handled[k].nearby[1]._id = "mem-2"


(***************************************************************************)
(* Properties of the order of the requests of a capture.                   *)
(***************************************************************************)
\* The positions of the facts of the batch that have this text.
FactsAt(text) == {k \in DOMAIN facts : facts[k] = text}

\* The request at position m writes the text of a fact that comes before
\* every fact the request at position s searches for.
WritesEarlierFact(m, s) ==
    /\ requests[m].op = "upsert"
    /\ requests[s].op = "search"
    /\ FactsAt(requests[m].text) # {}
    /\ FactsAt(requests[s].text) # {}
    /\ \A a \in FactsAt(requests[m].text) :
          \A b \in FactsAt(requests[s].text) : a < b

\* C31: facts of a capture batch are reconciled one at a time: the nearby
\* search for a later fact is issued only after the mutation decided for
\* every earlier fact has completed, in the heuristic path and in the LLM
\* path.  No record of an earlier fact is written after the search for a
\* later fact.
C31_SearchAfterEarlierMutations ==
    (entry = "agent_end" /\ "llm capture failed" \notin warnings) =>
        \A s \in DOMAIN requests : \A m \in DOMAIN requests :
            m > s => ~WritesEarlierFact(m, s)

\* LLM path, two facts: both searches were answered from the empty
\* namespace, and the record for the first fact was stored after them.
C31_StoredAfterLaterSearch ==
    /\ entry = "agent_end"
    /\ captureMode = "llm" /\ openaiClient
    /\ pc = "done"
    /\ warnings = {}
    /\ facts = <<DislikeDark, PreferEditor>>
    /\ requests = <<[op |-> "search", id |-> "", text |-> DislikeDark, ok |-> TRUE],
                    [op |-> "search", id |-> "", text |-> PreferEditor, ok |-> TRUE],
                    [op |-> "upsert", id |-> "uuid-1", text |-> DislikeDark, ok |-> TRUE]>>

\* Heuristic path, two facts: the record for the first fact was stored before
\* the search for the second.
C31_WitnessHeuristic ==
    /\ HeuristicMode
    /\ pc = "done"
    /\ facts = <<PreferEditor, DislikeDark>>
    /\ Len(requests) = 4
    /\ requests[2] = [op |-> "upsert", id |-> "uuid-1", text |-> PreferEditor, ok |-> TRUE]
    /\ requests[3] = [op |-> "search", id |-> "", text |-> DislikeDark, ok |-> TRUE]


(***************************************************************************)
(* Properties of heuristic extraction.                                     *)
(***************************************************************************)
\* The sentences of the user and assistant messages of the window, in order.
RECURSIVE SentencesOf(_)
SentencesOf(messages) ==
    IF messages = <<>> THEN <<>>
    ELSE (IF Head(messages).role \in {"user", "assistant"}
          THEN splitSentences(stripMemoryTags(contentText(Head(messages))))
          ELSE <<>>) \o SentencesOf(Tail(messages))

WindowSentences == SentencesOf(lastN(event.messages, 10))

\* heuristicCapture has extracted its facts.
Extracted == HeuristicMode /\ pc # "idle"

\* C32: every fact of the heuristic extraction is a normalized sentence whose
\* length lies within the configured bounds and which passes shouldCapture;
\* no fact is shorter than 20 or longer than 2000 characters.
C32_FactsWithinBoundsAndCaptured ==
    Extracted =>
        \A k \in DOMAIN facts :
            /\ LET ws == WindowSentences
               IN  \E j \in DOMAIN ws : ws[j] = facts[k]
            /\ normalizeFact(facts[k]) = facts[k]
            /\ TextLen(facts[k]) >= minFactLength
            /\ TextLen(facts[k]) <= maxFactLength
            /\ shouldCapture(facts[k])
            /\ TextLen(facts[k]) >= MIN_CAPTURE_LENGTH
            /\ TextLen(facts[k]) <= MAX_CAPTURE_LENGTH

\* "I like dark mode." has 17 characters, within the configured bounds, and a
\* preference word, and is no fact; the sentence after it is.
C32_Witness ==
    /\ Extracted
    /\ event.messages = <<Conversation[6]>>
    /\ WindowSentences = <<<<"I", "like", "dark", "mode.">>, DislikeDark>>
    /\ TextLen(WindowSentences[1]) >= minFactLength
    /\ TextLen(WindowSentences[1]) < MIN_CAPTURE_LENGTH
    /\ CAPTURE_PATTERNS(WindowSentences[1])
    /\ facts = <<DislikeDark>>


\* A sentence the extraction would accept if it were the only one.
Qualifies(sentence) ==
    /\ TextLen(sentence) >= minFactLength
    /\ TextLen(sentence) <= maxFactLength
    /\ shouldCapture(sentence)

\* More than nine in ten of the tokens of the two texts are shared.
NearIdentical(a, b) ==
    /\ tokenSet(a) # {} /\ tokenSet(b) # {}
    /\ 10 * Cardinality(tokenSet(a) \cap tokenSet(b))
          > 9 * Cardinality(tokenSet(a) \cup tokenSet(b))

\* Where a text first appears among the sentences ws.
FirstAppearance(ws, text) ==
    CHOOSE j \in DOMAIN ws :
        /\ ws[j] = text
        /\ \A i \in DOMAIN ws : ws[i] = text => j <= i

\* C33: heuristic extraction deduplicates within a batch: no two facts have
\* similarity > 0.9, a sentence near-identical to an accepted one is dropped,
\* every other qualifying sentence is a fact, and the facts keep the order of
\* their first appearance across the messages.
C33_BatchDeduplicated ==
    Extracted =>
        LET ws == WindowSentences
            first == [k \in DOMAIN facts |->
                        IF \E j \in DOMAIN ws : ws[j] = facts[k]
                        THEN FirstAppearance(ws, facts[k]) ELSE 0]
        IN  /\ \A a \in DOMAIN facts : \A b \in DOMAIN facts :
                  a # b => ~NearIdentical(facts[a], facts[b])
            /\ \A a \in DOMAIN facts :
                  /\ first[a] > 0
                  /\ \A b \in DOMAIN facts : a < b => first[a] < first[b]
            /\ \A j \in DOMAIN ws :
                  Qualifies(ws[j]) =>
                      \E k \in DOMAIN facts :
                          /\ first[k] <= j
                          /\ \/ facts[k] = ws[j]
                             \/ NearIdentical(facts[k], ws[j])

\* "dislike dark mode now" after "I dislike dark mode now", in the next
\* message: the same tokens, dropped.
C33_Witness ==
    /\ Extracted
    /\ event.messages = <<Conversation[6], Conversation[7]>>
    /\ Qualifies(Tail(DislikeDark))
    /\ Tail(DislikeDark) # DislikeDark
    /\ facts = <<DislikeDark>>

\* Two facts from two messages, in the order of the messages.
C33_WitnessOrder ==
    /\ Extracted
    /\ event.messages = <<Conversation[5], Conversation[6]>>
    /\ facts = <<PreferEditor, DislikeDark>>


(***************************************************************************)
(* Properties of the decisions llmReconcileMemories returns.               *)
(***************************************************************************)
\* llmReconcileMemories returned its decisions to the caller.
ReconcileReturned ==
    entry = "llmReconcileMemories" /\ pc = "done" /\ result.status = "returned"

\* The id is "new" exactly for an ADD, and old_memory is there exactly for an
\* UPDATE or a DELETE.
DecisionInvariant(d) ==
    /\ d.shape = "object"
    /\ (d.id = JStr("new")) <=> (eventOf(d) = "ADD")
    /\ (d.old_memory # Null) <=> (eventOf(d) \in {"UPDATE", "DELETE"})

\* C34: every decision handed on for applying has the id "new" if and only if
\* its action is ADD, and a non-null old_memory if and only if its action is
\* UPDATE or DELETE.
C34_DecisionsSatisfyInvariant ==
    ReconcileReturned => \A k \in DOMAIN decisions : DecisionInvariant(decisions[k])

\* An UPDATE of "new" without an old memory is returned as the backend wrote
\* it.
C34_UpdateOfNewReturned ==
    /\ ReconcileReturned
    /\ decisions = <<Decision(JStr("UPDATE"), JStr("new"), JText(MemoryText))>>

\* An UPDATE that names a memory shown and carries its old text.
C34_WitnessConforming ==
    /\ ReconcileReturned
    /\ variant = "part_000"
    /\ Len(decisions) = 1
    /\ DecisionInvariant(decisions[1])
    /\ eventOf(decisions[1]) = "UPDATE"
    /\ decisions[1].id = JStr("mem-1")


(***************************************************************************)
(* Properties of the fallback from the LLM path.                           *)
(***************************************************************************)
\* The decisions whose upsert or delete the index resolved.
MutationsApplied ==
    {k \in DOMAIN applied :
        \E r \in DOMAIN applied[k].ops :
            \/ r < Len(applied[k].ops)
            \/ applied[k].ok}

\* The inner catch of the hook ran, and heuristicCapture after it.
FellBack == "llm capture failed" \in warnings

\* C35: in LLM capture mode the heuristic fallback runs only if the LLM path
\* failed before issuing any store mutation: no agent_end invocation both
\* applies an LLM decision to the store and runs heuristic capture on the same
\* messages, whatever the backend returned.
C35_NoFallbackAfterMutation ==
    (entry = "agent_end" /\ captureMode = "llm" /\ openaiClient) =>
        ~(MutationsApplied # {} /\ FellBack)

\* The decisions [ADD, null]: the ADD was stored, reading the null entry
\* raised, and heuristic capture stored the user's sentence once more.
C35_StoredThenFellBack ==
    /\ entry = "agent_end" /\ captureMode = "llm" /\ openaiClient
    /\ variant = "index.js"
    /\ pc = "done"
    /\ decisions = <<Decision(JStr("ADD"), JStr("new"), JText(MemoryText)), NullDecision>>
    /\ MutationsApplied = {1}
    /\ FellBack
    /\ Len(handled) = 1 /\ handled[1].ok /\ handled[1].ops # <<>>
    /\ Cardinality(records) = 2


(***************************************************************************)
(* Properties of a batch of decisions applied to the store.                *)
(***************************************************************************)
\* applyMemoryDecisions, called on its own, has returned.
ApplyReturned == entry = "applyMemoryDecisions" /\ pc = "done"

\* The ids whose delete request, made for a DELETE decision, was resolved.
DeletedIds ==
    {applied[k].ops[1].id : k \in
        {j \in DOMAIN applied :
            /\ applied[j].ops # <<>>
            /\ applied[j].ops[1].op = "delete"
            /\ (applied[j].ok \/ Len(applied[j].ops) > 1)}}

RecordIds == {rec.id : rec \in records}

\* C36: a record removed by a DELETE decision of a batch is not in the store
\* under the same id when applyMemoryDecisions returns: a later UPDATE of the
\* batch that targets the id does not re-create it.
C36_DeletedStaysDeleted ==
    ApplyReturned => DeletedIds \cap RecordIds = {}

\* DELETE mem-1, then UPDATE mem-1: both resolved and counted, and mem-1 is
\* in the store with the text of the UPDATE.
C36_DeletedRecordRecreated ==
    /\ ApplyReturned
    /\ decisions = <<Decision(JStr("DELETE"), JStr("mem-1"), JText(<<>>)),
                     Decision(JStr("UPDATE"), JStr("mem-1"), JText(MemoryText))>>
    /\ applied[1].ok /\ applied[2].ok
    /\ requests = <<[op |-> "delete", id |-> "mem-1", text |-> <<>>, ok |-> TRUE],
                    [op |-> "upsert", id |-> "mem-1", text |-> MemoryText, ok |-> TRUE]>>
    /\ counts = [added |-> 0, updated |-> 1, deleted |-> 1, none |-> 0]
    /\ \E rec \in records : rec.id = "mem-1" /\ rec.content = MemoryText


\* The DELETE decisions with a text whose delete request was made.
ReplacingDeletes ==
    {k \in DOMAIN applied :
        /\ eventOf(decisions[applied[k].index]) = "DELETE"
        /\ textOf(decisions[applied[k].index]) # <<>>
        /\ applied[k].ops # <<>>}

\* The index resolved the delete request of the k-th decision applied.
DeleteResolved(k) ==
    /\ applied[k].ops # <<>>
    /\ applied[k].ops[1].op = "delete"
    /\ (applied[k].ok \/ Len(applied[k].ops) > 1)

\* C37: for a DELETE decision with a text, either the old record is removed,
\* the replacement is stored and the decision is counted, or the store is left
\* as it was and the decision is not counted; stats.deleted is the number of
\* deletes that took effect.
C37_DeleteAndReplaceTogether ==
    ApplyReturned =>
        /\ \A k \in ReplacingDeletes :
              DeleteResolved(k) =>
                  /\ Len(applied[k].ops) = 2
                  /\ applied[k].ops[2].op = "upsert"
                  /\ applied[k].ok
        /\ counts.deleted = Cardinality({k \in DOMAIN applied : DeleteResolved(k)})

\* UPDATE mem-1, then DELETE mem-1 with a text: the delete was resolved, the
\* store of the replacement failed; mem-1 is gone, nothing replaces it, and
\* no delete is counted.
C37_RemovedWithoutReplacement ==
    /\ ApplyReturned
    /\ decisions = <<Decision(JStr("UPDATE"), JStr("mem-1"), JText(MemoryText)),
                     Decision(JStr("DELETE"), JStr("mem-1"), JText(MemoryText))>>
    /\ requests = <<[op |-> "upsert", id |-> "mem-1", text |-> MemoryText, ok |-> TRUE],
                    [op |-> "delete", id |-> "mem-1", text |-> <<>>, ok |-> TRUE],
                    [op |-> "upsert", id |-> "uuid-1", text |-> MemoryText, ok |-> FALSE]>>
    /\ records = {}
    /\ counts = [added |-> 0, updated |-> 1, deleted |-> 0, none |-> 0]
    /\ "failed to apply" \in warnings
    /\ result.status = "returned"


(***************************************************************************)
(* Properties of the requests and counts of heuristic capture.             *)
(***************************************************************************)
\* The number of requests of these kinds made so far.
CountRequests(ops) == Cardinality({r \in DOMAIN requests : requests[r].op \in ops})

\* heuristicCapture ran to its end: no request failed and nothing was caught.
CompletedCleanly ==
    /\ HeuristicMode
    /\ pc = "done"
    /\ StoreHealthy
    /\ "capture failed" \notin warnings

\* C38: heuristic capture issues exactly one search and at most one store
\* mutation per extracted fact, and when it completes without a collaborator
\* failure added + updated + deleted + none is the number of extracted facts.
C38_OneSearchPerFactAndCountsAddUp ==
    /\ HeuristicMode =>
          /\ CountRequests({"search"}) <= Len(facts)
          /\ CountRequests({"upsert", "delete"}) <= CountRequests({"search"})
          /\ \A k \in DOMAIN handled :
                /\ handled[k].fact = facts[k]
                /\ Len(handled[k].ops) <= 1
    /\ CompletedCleanly =>
          /\ CountRequests({"search"}) = Len(facts)
          /\ Len(handled) = Len(facts)
          /\ \A k \in DOMAIN facts :
                [op |-> "search", id |-> "", text |-> facts[k], ok |-> TRUE]
                    \in {requests[r] : r \in DOMAIN requests}
          /\ counts.added + counts.updated + counts.deleted + counts.none = Len(facts)

\* Two facts: two searches, the first fact a duplicate with no mutation, the
\* second stored.
C38_Witness ==
    /\ CompletedCleanly
    /\ Len(facts) = 2
    /\ CountRequests({"search"}) = 2
    /\ CountRequests({"upsert", "delete"}) = 1
    /\ handled[1].ops = <<>>
    /\ counts = [added |-> 1, updated |-> 0, deleted |-> 0, none |-> 1]


(***************************************************************************)
(* Properties of a PineconeMemoryDB instance whose set-up failed.          *)
(***************************************************************************)
\* The one-time set-up of the instance has failed.
SetupFailed == entry = "PineconeMemoryDB" /\ ready \in {"missing", "rejected"}

\* The error every operation gets after that failure.
SetupError == IF ready = "missing" THEN "index not found" ELSE "listing rejected"

\* C39: once the one-time set-up has failed on an instance, the failure is
\* memoized: every later ensureIndex, store, update, search and delete fails
\* with the same error, the index listing is not queried again and no request
\* reaches the backend.
C39_SetupFailureMemoized ==
    [][SetupFailed =>
          /\ ready' = ready
          /\ listCalls = 1 /\ listCalls' = 1
          /\ requests = <<>> /\ requests' = <<>>
          /\ records' = records
          /\ \A c \in DOMAIN calls :
                (calls'[c].at = "done") => (calls'[c].outcome = SetupError)]_vars

\* The listing was rejected; a store and a search started after that both
\* failed with that error, with one listing made and no request sent.
C39_Witness ==
    /\ SetupFailed
    /\ ready = "rejected"
    /\ calls[1].op = "ensureIndex" /\ calls[1].early
    /\ calls[2].op = "store" /\ ~calls[2].early
    /\ \A c \in DOMAIN calls :
          calls[c].at = "done" /\ calls[c].outcome = "listing rejected"
    /\ listCalls = 1
    /\ requests = <<>>

====
